---------------------------- MODULE Spec2Model ----------------------------
(***************************************************************************)
(* A model of auto-researcher's ingestion and filter core:                 *)
(*   - Crawler.fetch and its source adapters   (src/src/crawler.py)        *)
(*   - ContentFilter.filter and its stages      (src/src/filter.py)         *)
(*   - the FilterConfig / SourceConfig objects  (src/src/config.py)         *)
(*                                                                         *)
(* Python values are modelled as follows.                                  *)
(*   str            a sequence of one-character strings, <<"a", "b">>      *)
(*   Optional[T]    None is <<>>, a present value v is <<v>> (Some(v))     *)
(*   list           a sequence                                             *)
(*   a call         Ok(v) when it returns v, Raise(e) when it raises e     *)
(***************************************************************************)
EXTENDS Integers, Sequences, FiniteSets, TLC

VARIABLES
    sources,    \* task.sources: the SourceConfig list of the task
    settings,   \* config.settings: the SettingsConfig of the run
    declared,   \* the filters list of the task in the configuration file
    filters,    \* task.filters: the FilterConfig list of the task
    now,        \* the wall clock datetime.now() reads during the run
    pc,         \* position of the run: "fetch", "filter", "done", "raised"
    si,         \* Crawler.fetch: index of the next source of the for loop
    all_data,   \* Crawler.fetch: the list being accumulated
    calls,      \* history: one entry per source visited by Crawler.fetch
    items,      \* the list ContentFilter.filter was called with
    fi,         \* ContentFilter.filter: index of the next rule of the for loop
    filtered,   \* ContentFilter.filter: the local variable `filtered`
    stages,     \* history: one entry per rule visited by ContentFilter.filter
    result      \* what the finished call returned (None until it returns)

vars == <<sources, settings, declared, filters, now, pc, si, all_data, calls, items, fi,
          filtered, stages, result>>

---------------------------------------------------------------------------
(* Python values *)

None == <<>>

Some(v) == <<v>>

IsNone(o) == o = <<>>

Get(o) == o[1]

Ok(v) == [ok |-> TRUE, val |-> v]

Raise(e) == [ok |-> FALSE, exc |-> e]

\* Truth value of an Optional[str] or Optional[list] (None, "" and [] are
\* false) and of an Optional[int] (None and 0 are false).
TruthyStr(o) == ~IsNone(o) /\ Get(o) # <<>>

TruthyInt(o) == ~IsNone(o) /\ Get(o) # 0

\* a or b
PyOr(a, b) == IF TruthyStr(a) THEN a ELSE b

\* a + b on two values that must both be str, else TypeError
PyAdd(a, b) ==
    IF ~a.ok THEN a
    ELSE IF ~b.ok THEN b
    ELSE IF IsNone(a.val) \/ IsNone(b.val) THEN Raise("TypeError")
    ELSE Ok(Some(Get(a.val) \o Get(b.val)))

---------------------------------------------------------------------------
(* Text *)

Uppers == <<"A", "B", "C", "D", "E", "F", "G", "H", "I", "J", "K", "L", "M",
            "N", "O", "P", "Q", "R", "S", "T", "U", "V", "W", "X", "Y", "Z">>

Lowers == <<"a", "b", "c", "d", "e", "f", "g", "h", "i", "j", "k", "l", "m",
            "n", "o", "p", "q", "r", "s", "t", "u", "v", "w", "x", "y", "z">>

Range(s) == {s[i] : i \in DOMAIN s}

\* str.lower() on one character
LowerChar(c) ==
    IF c \in Range(Uppers)
    THEN Lowers[CHOOSE i \in DOMAIN Uppers : Uppers[i] = c]
    ELSE c

\* str.lower()
Lower(s) == [i \in DOMAIN s |-> LowerChar(s[i])]

\* str.upper() on one character
UpperChar(c) ==
    IF c \in Range(Lowers)
    THEN Uppers[CHOOSE i \in DOMAIN Lowers : Lowers[i] = c]
    ELSE c

\* str.upper()
Upper(s) == [i \in DOMAIN s |-> UpperChar(s[i])]

\* the characters of the model's texts, in code point order
Ascii == <<"\t", "\n", " ", "!", "#", "$", "%", "&", "'", "(", ")", "*", "+",
           ",", "-", ".", "/", "0", "1", "2", "3", "4", "5", "6", "7", "8",
           "9", ":", ";", "<", "=", ">", "?", "@">> \o Uppers
         \o <<"[", "]", "^", "_">> \o Lowers \o <<"{", "|", "}", "~">>

\* ord(c)
Ord(c) == CHOOSE i \in DOMAIN Ascii : Ascii[i] = c

\* a < b on two str (lexicographic by code point)
RECURSIVE StrLess(_, _)
StrLess(a, b) ==
    IF b = <<>> THEN FALSE
    ELSE IF a = <<>> THEN TRUE
    ELSE IF Head(a) # Head(b) THEN Ord(Head(a)) < Ord(Head(b))
    ELSE StrLess(Tail(a), Tail(b))

\* kw in text
Contains(text, kw) ==
    \E i \in 0..(Len(text) - Len(kw)) : SubSeq(text, i + 1, i + Len(kw)) = kw

\* text[:n]
Prefix(text, n) == SubSeq(text, 1, IF Len(text) < n THEN Len(text) ELSE n)

Spaces == {" ", "\t", "\n"}

RECURSIVE LStrip(_)
LStrip(s) == IF s # <<>> /\ Head(s) \in Spaces THEN LStrip(Tail(s)) ELSE s

RECURSIVE RStrip(_)
RStrip(s) ==
    IF s # <<>> /\ s[Len(s)] \in Spaces
    THEN RStrip(SubSeq(s, 1, Len(s) - 1))
    ELSE s

\* str.strip()
Strip(s) == RStrip(LStrip(s))

\* sep.join(parts)
RECURSIVE Join(_, _)
Join(sep, parts) ==
    IF parts = <<>> THEN <<>>
    ELSE IF Len(parts) = 1 THEN parts[1]
    ELSE parts[1] \o sep \o Join(sep, Tail(parts))

---------------------------------------------------------------------------
(* datetime: an instant is a proleptic Gregorian ordinal day (datetime's     *)
(* toordinal()), the second of that day and the microsecond of that second. *)

SecondsPerDay == 86400

SecondsPerHour == 3600

MINYEAR == 1

MAXYEAR == 9999

IsLeap(y) == y % 4 = 0 /\ (y % 100 # 0 \/ y % 400 = 0)

DaysInMonth(y, m) ==
    IF m = 2 THEN (IF IsLeap(y) THEN 29 ELSE 28)
    ELSE IF m \in {4, 6, 9, 11} THEN 30 ELSE 31

\* number of days before January 1st of year y
DaysBeforeYear(y) ==
    (y - 1) * 365 + ((y - 1) \div 4) - ((y - 1) \div 100) + ((y - 1) \div 400)

RECURSIVE DaysBeforeMonth(_, _)
DaysBeforeMonth(y, m) ==
    IF m = 1 THEN 0 ELSE DaysBeforeMonth(y, m - 1) + DaysInMonth(y, m - 1)

\* date(y, m, d).toordinal()
Ymd2Ord(y, m, d) == DaysBeforeYear(y) + DaysBeforeMonth(y, m) + d

MaxOrdinal == Ymd2Ord(MAXYEAR, 12, 31)

\* datetime(y, m, d, H, M, S): ValueError outside the calendar
MkDatetime(y, m, d, H, M, S) ==
    IF /\ y >= MINYEAR /\ y <= MAXYEAR
       /\ m >= 1 /\ m <= 12
       /\ d >= 1 /\ d <= DaysInMonth(y, m)
       /\ H >= 0 /\ H <= 23 /\ M >= 0 /\ M <= 59 /\ S >= 0 /\ S <= 59
    THEN Ok([day |-> Ymd2Ord(y, m, d),
             sec |-> H * SecondsPerHour + M * 60 + S,
             us  |-> 0])
    ELSE Raise("ValueError")

\* a > b on two datetimes
DatetimeGT(a, b) ==
    \/ a.day > b.day
    \/ a.day = b.day /\ a.sec > b.sec
    \/ a.day = b.day /\ a.sec = b.sec /\ a.us > b.us

\* a >= b on two datetimes
DatetimeGE(a, b) ==
    \/ a.day > b.day
    \/ a.day = b.day /\ a.sec > b.sec
    \/ a.day = b.day /\ a.sec = b.sec /\ a.us >= b.us

\* t - timedelta(days=d, hours=h): OverflowError outside the calendar
MinusTimedelta(t, d, h) ==
    LET total == t.sec - h * SecondsPerHour
        carry == IF total >= 0 THEN total \div SecondsPerDay
                 ELSE -((SecondsPerDay - 1 - total) \div SecondsPerDay)
        day   == t.day - d + carry
    IN  IF day < 1 \/ day > MaxOrdinal
        THEN Raise("OverflowError")
        ELSE Ok([day |-> day, sec |-> total - carry * SecondsPerDay, us |-> t.us])

---------------------------------------------------------------------------
(* datetime.strptime(text, format).  A format is a sequence of tokens: a    *)
(* directive ("%Y", "%m", "%d", "%H", "%M", "%S", "%b"; "%a" and "%z" serve *)
(* the RFC 2822 dates below), a blank (" ", which strptime turns into \s+)  *)
(* or a literal character.  strptime builds                                  *)
(* a regular expression from the format, matches it (ignoring case) at the  *)
(* start of the text, trying each directive's alternatives in order and     *)
(* backtracking, and rejects a match that leaves text unconverted.          *)

Digits == <<"0", "1", "2", "3", "4", "5", "6", "7", "8", "9">>

IsDigit(c) == c \in Range(Digits)

DigitVal(c) == (CHOOSE i \in DOMAIN Digits : Digits[i] = c) - 1

DigitsAt(s, p, n) == p + n - 1 <= Len(s) /\ \A i \in p..(p + n - 1) : IsDigit(s[i])

RECURSIVE NumAt(_, _, _)
NumAt(s, p, n) ==
    IF n = 0 THEN 0 ELSE NumAt(s, p, n - 1) * 10 + DigitVal(s[p + n - 1])

MonthAbbr == << <<"j", "a", "n">>, <<"f", "e", "b">>, <<"m", "a", "r">>,
                <<"a", "p", "r">>, <<"m", "a", "y">>, <<"j", "u", "n">>,
                <<"j", "u", "l">>, <<"a", "u", "g">>, <<"s", "e", "p">>,
                <<"o", "c", "t">>, <<"n", "o", "v">>, <<"d", "e", "c">> >>

DayAbbr == << <<"m", "o", "n">>, <<"t", "u", "e">>, <<"w", "e", "d">>,
              <<"t", "h", "u">>, <<"f", "r", "i">>, <<"s", "a", "t">>,
              <<"s", "u", "n">> >>

\* the two-digit alternative of a numeric directive, when it matches at p
TwoDigits(s, p, lo, hi, key) ==
    IF DigitsAt(s, p, 2) /\ NumAt(s, p, 2) >= lo /\ NumAt(s, p, 2) <= hi
    THEN << [n |-> 2, key |-> key, v |-> NumAt(s, p, 2)] >>
    ELSE <<>>

\* the one-digit alternative of a numeric directive, when it matches at p
OneDigit(s, p, lo, key) ==
    IF DigitsAt(s, p, 1) /\ NumAt(s, p, 1) >= lo
    THEN << [n |-> 1, key |-> key, v |-> NumAt(s, p, 1)] >>
    ELSE <<>>

\* length of the run of whitespace at p
RECURSIVE SpaceRun(_, _)
SpaceRun(s, p) ==
    IF p <= Len(s) /\ s[p] \in Spaces THEN 1 + SpaceRun(s, p + 1) ELSE 0

\* \s+ is greedy: the longest run first, then shorter ones
RECURSIVE SpaceAlts(_)
SpaceAlts(n) ==
    IF n = 0 THEN <<>>
    ELSE << [n |-> n, key |-> "", v |-> 0] >> \o SpaceAlts(n - 1)

\* the alternatives of format token tok that match text s at position p, in
\* the order the regular expression tries them
Alternatives(tok, s, p) ==
    CASE tok = "%Y" ->
            IF DigitsAt(s, p, 4)
            THEN << [n |-> 4, key |-> "Y", v |-> NumAt(s, p, 4)] >>
            ELSE <<>>
      [] tok = "%m" -> TwoDigits(s, p, 1, 12, "m") \o OneDigit(s, p, 1, "m")
      [] tok = "%d" ->
            TwoDigits(s, p, 1, 31, "d") \o OneDigit(s, p, 1, "d")
            \o (IF p <= Len(s) /\ s[p] = " " /\ DigitsAt(s, p + 1, 1)
                   /\ NumAt(s, p + 1, 1) >= 1
                THEN << [n |-> 2, key |-> "d", v |-> NumAt(s, p + 1, 1)] >>
                ELSE <<>>)
      [] tok = "%H" -> TwoDigits(s, p, 0, 23, "H") \o OneDigit(s, p, 0, "H")
      [] tok = "%M" -> TwoDigits(s, p, 0, 59, "M") \o OneDigit(s, p, 0, "M")
      [] tok = "%S" -> TwoDigits(s, p, 0, 61, "S") \o OneDigit(s, p, 0, "S")
      [] tok = "%b" ->
            IF p + 2 <= Len(s)
               /\ \E k \in DOMAIN MonthAbbr :
                      MonthAbbr[k] = Lower(SubSeq(s, p, p + 2))
            THEN << [n |-> 3, key |-> "m",
                     v |-> CHOOSE k \in DOMAIN MonthAbbr :
                               MonthAbbr[k] = Lower(SubSeq(s, p, p + 2))] >>
            ELSE <<>>
      [] tok = "%a" ->
            IF p + 2 <= Len(s)
               /\ \E k \in DOMAIN DayAbbr :
                      DayAbbr[k] = Lower(SubSeq(s, p, p + 2))
            THEN << [n |-> 3, key |-> "", v |-> 0] >>
            ELSE <<>>
      [] tok = "%z" ->
            IF p <= Len(s) /\ s[p] \in {"+", "-"} /\ DigitsAt(s, p + 1, 4)
            THEN << [n |-> 5, key |-> "z",
                     v |-> IF s[p] = "-" /\ NumAt(s, p + 1, 4) = 0 THEN None
                           ELSE Some((IF s[p] = "-" THEN -1 ELSE 1)
                                     * (NumAt(s, p + 1, 2) * 60
                                        + NumAt(s, p + 3, 2)))] >>
            ELSE IF p + 2 <= Len(s) /\ SubSeq(s, p, p + 2) = <<"G", "M", "T">>
            THEN << [n |-> 3, key |-> "z", v |-> Some(0)] >>
            ELSE <<>>
      [] tok = " " -> SpaceAlts(SpaceRun(s, p))
      [] OTHER ->
            IF p <= Len(s) /\ LowerChar(s[p]) = LowerChar(tok)
            THEN << [n |-> 1, key |-> "", v |-> 0] >>
            ELSE <<>>

NoMatch == [ok |-> FALSE]

RECURSIVE MatchFrom(_, _, _, _, _)
RECURSIVE TryAlternatives(_, _, _, _, _, _)

\* match format tokens k.. against s from position p; got holds the fields
MatchFrom(fmt, k, s, p, got) ==
    IF k > Len(fmt) THEN [ok |-> TRUE, end |-> p, got |-> got]
    ELSE TryAlternatives(Alternatives(fmt[k], s, p), fmt, k, s, p, got)

TryAlternatives(alts, fmt, k, s, p, got) ==
    IF alts = <<>> THEN NoMatch
    ELSE LET a == Head(alts)
             g == IF a.key = "" THEN got ELSE [got EXCEPT ![a.key] = a.v]
             r == MatchFrom(fmt, k + 1, s, p + a.n, g)
         IN  IF r.ok THEN r
             ELSE TryAlternatives(Tail(alts), fmt, k, s, p, got)

\* the fields strptime assumes when the format does not give them
DefaultFields ==
    [Y |-> 1900, m |-> 1, d |-> 1, H |-> 0, M |-> 0, S |-> 0, z |-> None]

\* datetime.strptime(s, fmt): Ok(datetime) or Raise("ValueError")
strptime(s, fmt) ==
    LET r == MatchFrom(fmt, 1, s, 1, DefaultFields)
    IN  IF ~r.ok THEN Raise("ValueError")
        ELSE IF r.end # Len(s) + 1 THEN Raise("ValueError")
        ELSE MkDatetime(r.got.Y, r.got.m, r.got.d, r.got.H, r.got.M, r.got.S)

---------------------------------------------------------------------------
(* re, restricted to the patterns of this model: a pattern is a sequence of *)
(* literal characters and "." (any character but a newline).  "(" opens a   *)
(* group; no pattern here closes one, so a pattern holding "(" is           *)
(* malformed and re.compile raises re.error.                                 *)

re_compile(pattern, ignorecase) ==
    IF "(" \in Range(pattern) THEN Raise("re.error")
    ELSE Ok([pattern |-> pattern, ignorecase |-> ignorecase])

AtomMatches(atom, c, ignorecase) ==
    IF atom = "." THEN c # "\n"
    ELSE IF ignorecase THEN LowerChar(atom) = LowerChar(c)
    ELSE atom = c

\* pattern.search(text) is not None
re_search(compiled, text) ==
    LET pat == compiled.pattern
    IN  \E i \in 0..(Len(text) - Len(pat)) :
            \A k \in DOMAIN pat :
                AtomMatches(pat[k], text[i + k], compiled.ignorecase)

---------------------------------------------------------------------------
(* ContentFilter: the stages *)

\* the scopes read as if every item's abstract were absent: the title, the
\* content, or both
SearchTextContent(item, scope) ==
    IF scope = "title" \/ scope = "title_only" THEN Ok(item.title)
    ELSE IF scope = "abstract" \/ scope = "content_only" THEN Ok(item.content)
    ELSE PyAdd(PyAdd(Ok(item.title), Ok(Some(<<" ">>))), Ok(item.content))

\* the text a regex or keyword rule searches in item, by the rule's scope
SearchText(item, scope) ==
    IF scope = "title" \/ scope = "title_only" THEN Ok(item.title)
    ELSE IF scope = "abstract" \/ scope = "content_only"
    THEN Ok(PyOr(item.abstract, item.content))
    ELSE PyAdd(PyAdd(Ok(item.title), Ok(Some(<<" ">>))),
               Ok(PyOr(item.abstract, item.content)))

\* the iteration that takes every action other than keep for remove
RegexKeepsElseRemove(item, config, compiled) ==
    LET search_text == SearchText(item, config.scope)
    IN  IF ~search_text.ok THEN search_text
        ELSE IF IsNone(search_text.val) THEN Raise("TypeError")
        ELSE LET match == re_search(compiled, Get(search_text.val))
             IN  Ok(IF config.action = "keep" THEN match ELSE ~match)

\* one iteration of _filter_regex's loop: Ok(should_keep) or the exception
RegexKeeps(item, config, compiled) ==
    LET search_text == SearchText(item, config.scope)
    IN  IF ~search_text.ok THEN search_text
        ELSE IF IsNone(search_text.val) THEN Raise("TypeError")
        ELSE LET match == re_search(compiled, Get(search_text.val))
             IN  Ok(\/ config.action = "keep" /\ match
                    \/ config.action = "remove" /\ ~match)

\* the loop that folds the title of a kept item when case is ignored
RECURSIVE RegexLoopFolding(_, _, _, _, _)
RegexLoopFolding(items_, i, acc, config, compiled) ==
    IF i > Len(items_) THEN Ok(acc)
    ELSE LET keep == RegexKeeps(items_[i], config, compiled)
         IN  IF ~keep.ok THEN keep
             ELSE RegexLoopFolding(items_, i + 1,
                    IF keep.val
                    THEN Append(acc, [items_[i] EXCEPT
                                        !.title = Some(Lower(Get(@)))])
                    ELSE acc,
                    config, compiled)

RECURSIVE RegexLoop(_, _, _, _, _)
RegexLoop(items_, i, acc, config, compiled) ==
    IF i > Len(items_) THEN Ok(acc)
    ELSE LET keep == RegexKeeps(items_[i], config, compiled)
         IN  IF ~keep.ok THEN keep
             ELSE RegexLoop(items_, i + 1,
                            IF keep.val THEN Append(acc, items_[i]) ELSE acc,
                            config, compiled)

\* the stage that is a no-op only when the pattern is absent: an empty
\* pattern is compiled and searched for
_filter_regex_is_none(items_, config) ==
    IF IsNone(config.pattern) THEN Ok(items_)
    ELSE LET compiled == re_compile(Get(config.pattern), ~config.case_sensitive)
         IN  IF ~compiled.ok THEN compiled
             ELSE RegexLoop(items_, 1, <<>>, config, compiled.val)

_filter_regex(items_, config) ==
    IF ~TruthyStr(config.pattern) THEN Ok(items_)
    ELSE LET compiled == re_compile(Get(config.pattern), ~config.case_sensitive)
         IN  IF ~compiled.ok THEN compiled
             ELSE RegexLoop(items_, 1, <<>>, config, compiled.val)

\* the iteration that asks for one keyword whatever config.match says
KeywordKeepsAny(item, config, keywords) ==
    LET search_text == SearchText(item, config.scope)
    IN  IF ~search_text.ok THEN search_text
        ELSE IF IsNone(search_text.val)
        THEN Raise(IF config.case_sensitive THEN "TypeError" ELSE "AttributeError")
        ELSE LET text == IF config.case_sensitive THEN Get(search_text.val)
                         ELSE Lower(Get(search_text.val))
                 matched == \E k \in DOMAIN keywords : Contains(text, keywords[k])
             IN  Ok(IF config.action = "keep" THEN matched ELSE ~matched)

\* one iteration of _filter_keyword's loop: Ok(should_keep) or the exception
KeywordKeeps(item, config, keywords) ==
    LET search_text == SearchText(item, config.scope)
    IN  IF ~search_text.ok THEN search_text
        ELSE IF IsNone(search_text.val)
        THEN Raise(IF config.case_sensitive THEN "TypeError" ELSE "AttributeError")
        ELSE LET text == IF config.case_sensitive THEN Get(search_text.val)
                         ELSE Lower(Get(search_text.val))
                 matched == \E k \in DOMAIN keywords : Contains(text, keywords[k])
                 should_keep ==
                     IF config.match = "all"
                     THEN matched /\ \A k \in DOMAIN keywords :
                                         Contains(text, keywords[k])
                     ELSE matched
             IN  Ok(IF config.action = "keep" THEN should_keep ELSE ~should_keep)

\* the list without its element number i
RemoveAt(s, i) == SubSeq(s, 1, i - 1) \o SubSeq(s, i + 1, Len(s))

\* the loop that removes the rejected items from the list it iterates over
RECURSIVE KeywordLoopInPlace(_, _, _, _, _)
KeywordLoopInPlace(items_, i, acc, config, keywords) ==
    IF i > Len(items_) THEN Ok(items_)
    ELSE LET keep == KeywordKeeps(items_[i], config, keywords)
         IN  IF ~keep.ok THEN keep
             ELSE KeywordLoopInPlace(IF keep.val THEN items_
                                     ELSE RemoveAt(items_, i),
                                     i + 1, acc, config, keywords)

RECURSIVE KeywordLoop(_, _, _, _, _)
KeywordLoop(items_, i, acc, config, keywords) ==
    IF i > Len(items_) THEN Ok(acc)
    ELSE LET keep == KeywordKeeps(items_[i], config, keywords)
         IN  IF ~keep.ok THEN keep
             ELSE KeywordLoop(items_, i + 1,
                              IF keep.val THEN Append(acc, items_[i]) ELSE acc,
                              config, keywords)

\* the stage that lowers the text it searches and leaves the keywords as given
_filter_keyword_as_given(items_, config) ==
    IF ~TruthyStr(config.keywords) THEN Ok(items_)
    ELSE KeywordLoop(items_, 1, <<>>, config, Get(config.keywords))

_filter_keyword(items_, config) ==
    IF ~TruthyStr(config.keywords) THEN Ok(items_)
    ELSE LET given == Get(config.keywords)
             keywords == IF config.case_sensitive THEN given
                         ELSE [k \in DOMAIN given |-> Lower(given[k])]
         IN  KeywordLoop(items_, 1, <<>>, config, keywords)

\* the loop that measures the title and the abstract, the content when the
\* item has no abstract
RECURSIVE LengthLoopAbstract(_, _, _, _)
LengthLoopAbstract(items_, i, acc, config) ==
    IF i > Len(items_) THEN Ok(acc)
    ELSE LET text == PyAdd(PyAdd(Ok(items_[i].title), Ok(Some(<<" ">>))),
                           Ok(PyOr(items_[i].abstract, items_[i].content)))
         IN  IF ~text.ok THEN text
             ELSE LET length == Len(Get(text.val))
                      skip ==
                          \/ ~IsNone(config.min) /\ length < Get(config.min)
                          \/ ~IsNone(config.max) /\ length > Get(config.max)
                  IN  LengthLoopAbstract(items_, i + 1,
                                         IF skip THEN acc ELSE Append(acc, items_[i]),
                                         config)

RECURSIVE LengthLoop(_, _, _, _)
LengthLoop(items_, i, acc, config) ==
    IF i > Len(items_) THEN Ok(acc)
    ELSE LET text == PyAdd(PyAdd(Ok(items_[i].title), Ok(Some(<<" ">>))),
                           Ok(items_[i].content))
         IN  IF ~text.ok THEN text
             ELSE LET length == Len(Get(text.val))
                      skip ==
                          \/ ~IsNone(config.min) /\ length < Get(config.min)
                          \/ ~IsNone(config.max) /\ length > Get(config.max)
                  IN  LengthLoop(items_, i + 1,
                                 IF skip THEN acc ELSE Append(acc, items_[i]),
                                 config)

_filter_length(items_, config) == LengthLoop(items_, 1, <<>>, config)

\* the number of characters of content that enter a deduplication key
KeyContentLen == 100

\* _filter_deduplicate's key_parts for one item: Ok(list) or the exception
RECURSIVE KeyParts(_, _, _, _)
KeyParts(item, fields, j, parts) ==
    IF j > Len(fields) THEN Ok(parts)
    ELSE IF fields[j] = "title"
    THEN KeyParts(item, fields, j + 1, Append(parts, item.title))
    ELSE IF fields[j] = "content"
    THEN IF IsNone(item.content) THEN Raise("TypeError")
         ELSE KeyParts(item, fields, j + 1,
                       Append(parts, Some(Prefix(Get(item.content), KeyContentLen))))
    ELSE IF fields[j] = "url" /\ TruthyStr(item.url)
    THEN KeyParts(item, fields, j + 1, Append(parts, item.url))
    ELSE KeyParts(item, fields, j + 1, parts)

\* "|".join(key_parts): TypeError when a part is None
DedupKey(item, fields) ==
    LET parts == KeyParts(item, fields, 1, <<>>)
    IN  IF ~parts.ok THEN parts
        ELSE IF \E j \in DOMAIN parts.val : IsNone(parts.val[j])
        THEN Raise("TypeError")
        ELSE Ok(Join(<<"|">>, [j \in DOMAIN parts.val |-> Get(parts.val[j])]))

\* the loop that keeps, for each key, the record seen last under it
RECURSIVE DeduplicateLoopLast(_, _, _, _, _)
DeduplicateLoopLast(items_, i, acc, seen, fields) ==
    IF i > Len(items_) THEN Ok(acc)
    ELSE LET key == DedupKey(items_[i], fields)
         IN  IF ~key.ok THEN key
             ELSE IF key.val \notin seen
             THEN DeduplicateLoopLast(items_, i + 1, Append(acc, items_[i]),
                                      seen \cup {key.val}, fields)
             ELSE DeduplicateLoopLast(items_, i + 1,
                    [k \in DOMAIN acc |->
                        IF DedupKey(acc[k], fields) = key THEN items_[i]
                        ELSE acc[k]],
                    seen, fields)

RECURSIVE DeduplicateLoop(_, _, _, _, _)
DeduplicateLoop(items_, i, acc, seen, fields) ==
    IF i > Len(items_) THEN Ok(acc)
    ELSE LET key == DedupKey(items_[i], fields)
         IN  IF ~key.ok THEN key
             ELSE IF key.val \notin seen
             THEN DeduplicateLoop(items_, i + 1, Append(acc, items_[i]),
                                  seen \cup {key.val}, fields)
             ELSE DeduplicateLoop(items_, i + 1, acc, seen, fields)

\* the fields the stage keys on: ["title"] when none are configured
DedupFields(config) ==
    IF ~TruthyStr(config.fields) THEN <<"title">> ELSE Get(config.fields)

_filter_deduplicate(items_, config) ==
    DeduplicateLoop(items_, 1, <<>>, {}, DedupFields(config))

\* the formats _filter_date tries, in order
date_formats ==
    << <<"%Y", "-", "%m", "-", "%d">>,
       <<"%Y", "-", "%m", "-", "%d", "T", "%H", ":", "%M", ":", "%S">>,
       <<"%Y", "-", "%m", "-", "%d", " ", "%H", ":", "%M", ":", "%S">>,
       <<"%d", " ", "%b", " ", "%Y">>,
       <<"%Y">> >>

\* the first format of date_formats (from the k-th on) that parses text
RECURSIVE ParseWith(_, _)
ParseWith(text, k) ==
    IF k > Len(date_formats) THEN None
    ELSE LET r == strptime(text, date_formats[k])
         IN  IF r.ok THEN Some(r.val) ELSE ParseWith(text, k + 1)

\* item_date of _filter_date: None, or the parsed datetime
ItemDate(item) ==
    IF TruthyStr(item.date) THEN ParseWith(Strip(Get(item.date)), 1) ELSE None

\* the cutoff that prefers the window of days to the window of hours
CutoffDateDays(days, hours, clock) ==
    IF days > 0 THEN MinusTimedelta(clock, days, 0)
    ELSE MinusTimedelta(clock, 0, hours)

\* cutoff_date of _filter_date: Ok(datetime) or the exception
CutoffDate(days, hours, clock) ==
    IF hours > 0 THEN MinusTimedelta(clock, 0, hours)
    ELSE MinusTimedelta(clock, days, 0)

\* the loop that drops the items whose date it cannot read
RECURSIVE DateLoopClosed(_, _, _, _)
DateLoopClosed(items_, i, acc, cutoff_date) ==
    IF i > Len(items_) THEN Ok(acc)
    ELSE LET item == items_[i]
             item_date == ItemDate(item)
         IN  IF IsNone(item_date)
             THEN IF IsNone(item.title) THEN Raise("TypeError")
                  ELSE DateLoopClosed(items_, i + 1, acc, cutoff_date)
             ELSE IF DatetimeGE(Get(item_date), cutoff_date)
             THEN DateLoopClosed(items_, i + 1, Append(acc, item), cutoff_date)
             ELSE IF IsNone(item.title) THEN Raise("TypeError")
             ELSE DateLoopClosed(items_, i + 1, acc, cutoff_date)

RECURSIVE DateLoop(_, _, _, _)
DateLoop(items_, i, acc, cutoff_date) ==
    IF i > Len(items_) THEN Ok(acc)
    ELSE LET item == items_[i]
             item_date == ItemDate(item)
         IN  IF IsNone(item_date)
             THEN \* logger.debug(f"... {item.title[:50]}") subscripts the title
                  IF IsNone(item.title) THEN Raise("TypeError")
                  ELSE DateLoop(items_, i + 1, Append(acc, item), cutoff_date)
             ELSE IF DatetimeGE(Get(item_date), cutoff_date)
             THEN DateLoop(items_, i + 1, Append(acc, item), cutoff_date)
             ELSE IF IsNone(item.title) THEN Raise("TypeError")
             ELSE DateLoop(items_, i + 1, acc, cutoff_date)

_filter_date(items_, config, clock) ==
    LET days  == IF TruthyInt(config.days) THEN Get(config.days) ELSE 0
        hours == IF TruthyInt(config.hours) THEN Get(config.hours) ELSE 0
    IN  IF days = 0 /\ hours = 0 THEN Ok(items_)
        ELSE LET cutoff_date == CutoffDate(days, hours, clock)
             IN  IF ~cutoff_date.ok THEN cutoff_date
                 ELSE DateLoop(items_, 1, <<>>, cutoff_date.val)

KnownFilterTypes == {"regex", "keyword", "length", "deduplicate", "date"}

\* the dispatch that raises for a rule whose type no stage serves
ApplyRuleStrict(filtered_, filter_config, clock) ==
    LET filter_type == filter_config.type
    IN  IF filter_type = "regex" THEN _filter_regex(filtered_, filter_config)
        ELSE IF filter_type = "keyword" THEN _filter_keyword(filtered_, filter_config)
        ELSE IF filter_type = "length" THEN _filter_length(filtered_, filter_config)
        ELSE IF filter_type = "deduplicate"
        THEN _filter_deduplicate(filtered_, filter_config)
        ELSE IF filter_type = "date" THEN _filter_date(filtered_, filter_config, clock)
        ELSE Raise("ValueError")

\* the body of one iteration of ContentFilter.filter's loop: what `filtered`
\* becomes, or the exception the stage raises
ApplyRule(filtered_, filter_config, clock) ==
    LET filter_type == filter_config.type
    IN  IF filter_type = "regex" THEN _filter_regex(filtered_, filter_config)
        ELSE IF filter_type = "keyword" THEN _filter_keyword(filtered_, filter_config)
        ELSE IF filter_type = "length" THEN _filter_length(filtered_, filter_config)
        ELSE IF filter_type = "deduplicate"
        THEN _filter_deduplicate(filtered_, filter_config)
        ELSE IF filter_type = "date" THEN _filter_date(filtered_, filter_config, clock)
        ELSE Ok(filtered_)

---------------------------------------------------------------------------
(* Crawler: records and the values the adapters read *)

\* FetchedItem(source, title, content, url, date, metadata, authors,
\*             abstract, categories)
FetchedItem(source, title, content, url, date, metadata, authors, abstract, categories) ==
    [source |-> source, title |-> title, content |-> content, url |-> url,
     date |-> date, metadata |-> metadata, authors |-> authors,
     abstract |-> abstract, categories |-> categories]

\* d.get(key, default) on a dict modelled as a function from its keys; a key
\* that is present with the value null gives None, not the default
DictGet(d, key, default) == IF key \in DOMAIN d THEN d[key] ELSE default

\* source.auth.get(key, default) if source.auth else default
AuthGet(source, key, default) ==
    IF IsNone(source.auth) \/ DOMAIN Get(source.auth) = {} THEN default
    ELSE DictGet(Get(source.auth), key, default)

\* str(n) for n >= 0
RECURSIVE IntToStr(_)
IntToStr(n) ==
    IF n < 10 THEN <<Digits[n + 1]>>
    ELSE IntToStr(n \div 10) \o <<Digits[(n % 10) + 1]>>

\* s.split(sep)[-1]
RECURSIVE LastSegment(_, _)
LastSegment(s, sep) ==
    IF sep \in Range(s)
    THEN LastSegment(SubSeq(s, (CHOOSE i \in DOMAIN s : s[i] = sep
                                   /\ \A j \in 1..(i - 1) : s[j] # sep) + 1,
                            Len(s)), sep)
    ELSE s

\* s[:n] on a list, n >= 0
Take(s, n) == SubSeq(s, 1, IF Len(s) < n THEN Len(s) ELSE n)

\* s.replace(old, new) for single characters
ReplaceChar(s, old, new) == [i \in DOMAIN s |-> IF s[i] = old THEN new ELSE s[i]]

\* node.get_text(strip=True) of a node holding one text: None when the
\* node is absent (find / select_one returned None)
GetText(node) == IF IsNone(node) THEN None ELSE Some(Strip(Get(node)))

\* x if x is not None else default
OrElse(o, default) == IF IsNone(o) THEN default ELSE Get(o)

Untitled == <<"U", "n", "t", "i", "t", "l", "e", "d">>

---------------------------------------------------------------------------
(* Crawler._fetch_api.  The response is [http, json]: http is "ok" or       *)
(* "error" (the request or raise_for_status raises); json is the body:      *)
(* [kind |-> "invalid"], [kind |-> "scalar", str], [kind |-> "list", elems] *)
(* or [kind |-> "dict", obj], obj a function from its keys.  A value of a   *)
(* key is None (JSON null), Some(text) or, for "data", Some(list of such    *)
(* json values).                                                             *)

\* one iteration of _fetch_api's loop over data_list
ApiItem(source, idx, item) ==
    IF item.kind = "dict"
    THEN FetchedItem(
            source.name,
            DictGet(item.obj, "title",
                DictGet(item.obj, "name",
                    Some(<<"I", "t", "e", "m", " ">> \o IntToStr(idx)))),
            DictGet(item.obj, "content",
                DictGet(item.obj, "description",
                    DictGet(item.obj, "body", Some(<<>>)))),
            DictGet(item.obj, "url", DictGet(item.obj, "link", None)),
            DictGet(item.obj, "date",
                DictGet(item.obj, "created_at",
                    DictGet(item.obj, "published", None))),
            [raw |-> item], None, None, None)
    ELSE FetchedItem(source.name, Some(item.str), Some(item.str), None, None,
                     [raw |-> item], None, None, None)

\* data_list of _fetch_api for a dict body
ApiDataList(json_data) ==
    LET data == DictGet(json_data.obj, "data", Some(<<>>))
    IN  IF TruthyStr(data) THEN Get(data) ELSE <<json_data>>

_fetch_api(source, resp) ==
    IF resp.http # "ok" THEN Raise("RequestException")
    ELSE IF resp.json.kind = "invalid" THEN Ok(<<>>)
    ELSE IF resp.json.kind \notin {"list", "dict"} THEN Ok(<<>>)
    ELSE LET data_list == IF resp.json.kind = "list" THEN resp.json.elems
                          ELSE ApiDataList(resp.json)
         IN  Ok([k \in DOMAIN data_list |->
                    ApiItem(source, k - 1, data_list[k])])

---------------------------------------------------------------------------
(* Crawler._fetch_web.  The response is [http, selected, root]: the         *)
(* elements source.selector selects and the whole document.  An element is  *)
(* [heading, body, dated, text]: the text node its title, content and date  *)
(* selector finds (None when it finds none) and the element's own text.     *)

WebItem(source, element) ==
    LET title   == OrElse(GetText(element.heading), <<>>)
        content == IF ~IsNone(source.fields) /\ DOMAIN Get(source.fields) # {}
                   THEN OrElse(GetText(element.body), <<>>)
                   ELSE Strip(element.text)
    IN  FetchedItem(source.name,
                    Some(IF title # <<>> THEN title ELSE Untitled),
                    Some(content), Some(source.url), GetText(element.dated),
                    [html |-> element.text], None, None, None)

_fetch_web(source, resp) ==
    IF resp.http # "ok" THEN Raise("RequestException")
    ELSE LET elements == IF TruthyStr(source.selector) THEN resp.selected
                         ELSE <<resp.root>>
         IN  Ok([k \in DOMAIN elements |-> WebItem(source, elements[k])])

---------------------------------------------------------------------------
(* Crawler._fetch_arxiv.  The response is [http, entries]; an entry is      *)
(* [title, summary, published, id, pdf, authors, categories], each the text *)
(* node of the element of that name, None when the entry has none; authors *)
(* lists the name node of each author element, categories the terms.       *)

\* node.get_text(strip=True).replace("\n", " ") if node else default
OneLine(node, default) ==
    IF IsNone(node) THEN default
    ELSE Some(ReplaceChar(Strip(Get(node)), "\n", " "))

\* the names of the author elements that hold a name element
RECURSIVE ArxivAuthors(_)
ArxivAuthors(authors) ==
    IF authors = <<>> THEN <<>>
    ELSE (IF IsNone(Head(authors)) THEN <<>> ELSE <<Get(GetText(Head(authors)))>>)
         \o ArxivAuthors(Tail(authors))

ArxivItem(source, entry) ==
    LET title    == Get(OneLine(entry.title, Some(<<>>)))
        abstract == Get(OneLine(entry.summary, Some(<<>>)))
        arxiv_id == IF IsNone(entry.id) THEN None
                    ELSE Some(LastSegment(Strip(Get(entry.id)), "/"))
    IN  FetchedItem(source.name,
                    Some(IF TruthyStr(arxiv_id)
                         THEN <<"[">> \o Get(arxiv_id) \o <<"]", " ">> \o title
                         ELSE title),
                    Some(abstract), entry.pdf, GetText(entry.published),
                    [arxiv_id |-> arxiv_id], Some(ArxivAuthors(entry.authors)),
                    Some(abstract), Some(entry.categories))

_fetch_arxiv(source, resp) ==
    IF resp.http # "ok" THEN Raise("RequestException")
    ELSE Ok([k \in DOMAIN resp.entries |-> ArxivItem(source, resp.entries[k])])

---------------------------------------------------------------------------
(* Crawler._fetch_semantic_scholar.  The response is [http, json]; json is  *)
(* [kind |-> "invalid"] or [kind |-> "dict", obj], whose "data" value is a  *)
(* list of papers, each a function from its keys.                            *)

\* [a.get(key) for a in authors if a.get(key)]
RECURSIVE AuthorNames(_, _)
AuthorNames(authors, key) ==
    IF authors = <<>> THEN <<>>
    ELSE LET name == DictGet(Head(authors), key, None)
         IN  (IF TruthyStr(name) THEN <<Get(name)>> ELSE <<>>)
             \o AuthorNames(Tail(authors), key)

ScholarItem(source, paper) ==
    LET title    == DictGet(paper, "title", Some(Untitled))
        abstract == PyOr(DictGet(paper, "abstract", None), Some(<<>>))
        year     == DictGet(paper, "year", None)
        venue    == DictGet(paper, "venue", Some(<<>>))
    IN  FetchedItem(source.name, title, abstract,
                    DictGet(paper, "url", None),
                    IF TruthyInt(year) THEN Some(IntToStr(Get(year))) ELSE None,
                    [paperId |-> DictGet(paper, "paperId", None), venue |-> venue],
                    Some(AuthorNames(DictGet(paper, "authors", <<>>), "name")),
                    abstract,
                    Some(IF TruthyStr(venue) THEN <<Get(venue)>> ELSE <<>>))

_fetch_semantic_scholar(source, resp) ==
    LET query == AuthGet(source, "query", Some(<<>>))
    IN  IF ~TruthyStr(query) THEN Ok(<<>>)
        ELSE IF resp.http # "ok" THEN Raise("RequestException")
        ELSE IF resp.json.kind = "invalid" THEN Raise("JSONDecodeError")
        ELSE LET papers == DictGet(resp.json.obj, "data", Some(<<>>))
             IN  IF IsNone(papers) THEN Raise("TypeError")
                 ELSE Ok([k \in DOMAIN Get(papers) |->
                             ScholarItem(source, Get(papers)[k])])

---------------------------------------------------------------------------
(* email.utils.parsedate_to_datetime and datetime.isoformat, on the dates   *)
(* of a feed's pubDate: "Mon, 04 Mar 2024 10:00:00 +0000", the day name     *)
(* optional, the zone +hhmm, -hhmm or GMT; any other text fails to parse.   *)

Rfc2822 == <<"%d", " ", "%b", " ", "%Y", " ", "%H", ":", "%M", ":", "%S",
             " ", "%z">>

Rfc2822Formats == << <<"%a", ",", " ">> \o Rfc2822, Rfc2822 >>

\* Ok(the fields of the datetime) or Raise("ValueError")
parsedate_to_datetime(s) ==
    LET full == MatchFrom(Rfc2822Formats[1], 1, s, 1, DefaultFields)
        bare == MatchFrom(Rfc2822Formats[2], 1, s, 1, DefaultFields)
        r    == IF full.ok /\ full.end = Len(s) + 1 THEN full ELSE bare
    IN  IF ~r.ok \/ r.end # Len(s) + 1 THEN Raise("ValueError")
        ELSE IF ~MkDatetime(r.got.Y, r.got.m, r.got.d,
                            r.got.H, r.got.M, r.got.S).ok
        THEN Raise("ValueError")
        ELSE Ok(r.got)

\* n as text of at least width digits, n >= 0
RECURSIVE Pad(_, _)
Pad(n, width) ==
    IF width <= 1 THEN IntToStr(n)
    ELSE IF Len(IntToStr(n)) < width THEN <<"0">> \o Pad(n, width - 1)
    ELSE IntToStr(n)

\* dt.isoformat() of the datetime with fields f: no offset when it is naive
isoformat(f) ==
    Pad(f.Y, 4) \o <<"-">> \o Pad(f.m, 2) \o <<"-">> \o Pad(f.d, 2) \o <<"T">>
    \o Pad(f.H, 2) \o <<":">> \o Pad(f.M, 2) \o <<":">> \o Pad(f.S, 2)
    \o (IF IsNone(f.z) THEN <<>>
        ELSE LET off == Get(f.z)
                 mag == IF off < 0 THEN -off ELSE off
             IN  <<IF off < 0 THEN "-" ELSE "+">>
                 \o Pad(mag \div 60, 2) \o <<":">> \o Pad(mag % 60, 2))

\* the date a feed adapter derives from a pubDate node: isoformat of the
\* parsed date, None when there is no node or it does not parse
PubDate(node) ==
    IF IsNone(node) THEN None
    ELSE LET dt == parsedate_to_datetime(Get(GetText(node)))
         IN  IF dt.ok THEN Some(isoformat(dt.val)) ELSE None

\* the key the feed adapters sort on: x.date or ""
DateKey(item) == IF TruthyStr(item.date) THEN Get(item.date) ELSE <<>>

\* insert item behind every element whose key is not smaller than its own
RECURSIVE InsertByDate(_, _)
InsertByDate(sorted, item) ==
    IF sorted = <<>> THEN <<item>>
    ELSE IF StrLess(DateKey(Head(sorted)), DateKey(item))
    THEN <<item>> \o sorted
    ELSE <<Head(sorted)>> \o InsertByDate(Tail(sorted), item)

\* items.sort(key=lambda x: x.date or "", reverse=True): stable
RECURSIVE SortByDateDesc(_)
SortByDateDesc(list) ==
    IF list = <<>> THEN <<>>
    ELSE InsertByDate(SortByDateDesc(SubSeq(list, 1, Len(list) - 1)),
                      list[Len(list)])

---------------------------------------------------------------------------
(* Crawler._fetch_arxiv_rss.  The response is [rss, atom], each [http,      *)
(* entries]: the answer to the RSS request and to the Atom request the      *)
(* adapter falls back to.  An entry is [title, description, summary,        *)
(* authors, pubDate, dc_date, published, categories, link, href]: text      *)
(* nodes, None when absent; link is the text of the link element, href its  *)
(* attribute.  The adapter never looks the dc:date node up.                 *)

\* s.replace(old, "") for a non-empty old
RECURSIVE RemoveAll(_, _)
RemoveAll(s, old) ==
    IF Len(s) < Len(old) THEN s
    ELSE IF SubSeq(s, 1, Len(old)) = old
    THEN RemoveAll(SubSeq(s, Len(old) + 1, Len(s)), old)
    ELSE <<Head(s)>> \o RemoveAll(Tail(s), old)

\* the texts of the nodes that have one: [t for t in texts if t]
RECURSIVE NonEmptyTexts(_)
NonEmptyTexts(nodes) ==
    IF nodes = <<>> THEN <<>>
    ELSE (IF Strip(Head(nodes)) # <<>> THEN <<Strip(Head(nodes))>> ELSE <<>>)
         \o NonEmptyTexts(Tail(nodes))

\* the date of one feed entry: the parsed pubDate, else the published text
RssDate(entry) ==
    LET date == PubDate(entry.pubDate)
    IN  IF TruthyStr(date) THEN date
        ELSE IF ~IsNone(entry.published) THEN GetText(entry.published)
        ELSE date

\* one iteration of _fetch_arxiv_rss's loop: the items it appends
ArxivRssItem(source, entry) ==
    LET title     == Get(OneLine(entry.title, Some(<<>>)))
        abstract  == IF ~IsNone(entry.description)
                     THEN OneLine(entry.description, None)
                     ELSE OneLine(entry.summary, None)
        text      == GetText(entry.link)
        paper_url == IF IsNone(entry.link) THEN None
                     ELSE IF TruthyStr(text) THEN text ELSE entry.href
        arxiv_id  == IF TruthyStr(paper_url)
                        /\ Contains(Get(paper_url), <<"a", "r", "x", "i", "v", ".", "o", "r", "g">>)
                     THEN Some(RemoveAll(LastSegment(Get(paper_url), "/"),
                                         <<".", "p", "d", "f">>))
                     ELSE None
        titled    == IF TruthyStr(arxiv_id)
                     THEN <<"[">> \o Get(arxiv_id) \o <<"]", " ">> \o title
                     ELSE title
    IN  IF titled = <<>> THEN <<>>
        ELSE << FetchedItem(source.name, Some(titled),
                            PyOr(abstract, Some(<<>>)), paper_url,
                            RssDate(entry),
                            [arxiv_id |-> arxiv_id, source |-> "arxiv_rss"],
                            Some(ArxivAuthors(entry.authors)), abstract,
                            Some(NonEmptyTexts(entry.categories))) >>

RECURSIVE ArxivRssItems(_, _)
ArxivRssItems(source, entries) ==
    IF entries = <<>> THEN <<>>
    ELSE ArxivRssItem(source, Head(entries))
         \o ArxivRssItems(source, Tail(entries))

\* the entries the try block of _fetch_arxiv_rss gets hold of; an exception
\* in it is caught and leaves none
ArxivRssEntries(resp) ==
    IF resp.rss.http # "ok" THEN <<>>
    ELSE IF resp.rss.entries # <<>> THEN resp.rss.entries
    ELSE IF resp.atom.http # "ok" THEN <<>>
    ELSE resp.atom.entries

DefaultMaxResults == 20

_fetch_arxiv_rss(source, resp) ==
    LET categories == AuthGet(source, "categories", <<>>)
    IN  IF categories = <<>> THEN Ok(<<>>)
        ELSE Ok(Take(SortByDateDesc(ArxivRssItems(source, ArxivRssEntries(resp))),
                     AuthGet(source, "max_results", DefaultMaxResults)))

---------------------------------------------------------------------------
(* Crawler._fetch_acl_anthology.  The response is [http, entries]; an entry *)
(* is [title, link, description, pubDate, categories].                      *)

KnownConferences == <<<<"A", "C", "L">>, <<"E", "M", "N", "L", "P">>, <<"N", "A", "A", "C", "L">>, <<"E", "A", "C", "L">>, <<"C", "O", "L", "I", "N", "G">>,
                      <<"A", "A", "A", "C", "L">>, <<"F", "i", "n", "d", "i", "n", "g", "s">>>>

\* the first category that is a known conference, None when there is none
RECURSIVE Conference(_)
Conference(categories) ==
    IF categories = <<>> THEN None
    ELSE IF Head(categories) \in Range(KnownConferences)
    THEN Some(Head(categories))
    ELSE Conference(Tail(categories))

\* one iteration of _fetch_acl_anthology's loop: the items it appends
AclItem(source, entry, conferences) ==
    LET title      == IF IsNone(entry.title) THEN Untitled
                      ELSE Get(GetText(entry.title))
        abstract   == OrElse(GetText(entry.description), <<>>)
        categories == NonEmptyTexts(entry.categories)
        conference == Conference(categories)
    IN  IF conferences # <<>>
           /\ (IsNone(conference) \/ Get(conference) \notin Range(conferences))
        THEN <<>>
        ELSE << FetchedItem(source.name, Some(title), Some(abstract),
                            GetText(entry.link), PubDate(entry.pubDate),
                            [conference |-> conference, source |-> "acl_anthology"],
                            Some(<<>>), Some(abstract), Some(categories)) >>

RECURSIVE AclItems(_, _, _)
AclItems(source, entries, conferences) ==
    IF entries = <<>> THEN <<>>
    ELSE AclItem(source, Head(entries), conferences)
         \o AclItems(source, Tail(entries), conferences)

_fetch_acl_anthology(source, resp) ==
    LET conferences == AuthGet(source, "conferences", <<>>)
        items_      == IF resp.http # "ok" THEN <<>>
                       ELSE AclItems(source, resp.entries, conferences)
    IN  Ok(Take(SortByDateDesc(items_),
                AuthGet(source, "max_results", DefaultMaxResults)))

---------------------------------------------------------------------------
(* Crawler._fetch_dblp.  The response is [search, feed, pages].  search is  *)
(* [http, json], json [kind |-> "invalid"] or [kind |-> "dict", hits], hits *)
(* the list of the "info" dicts of result.hits.hit.  feed is [http,         *)
(* channel]: None, or the list of the channel's items [title, link].  pages *)
(* maps a link to [status, papers], the proceedings page behind it; a paper *)
(* is [title, authors, hrefs, year].                                         *)

\* s.replace(old, new) for a non-empty old
RECURSIVE ReplaceAll(_, _, _)
ReplaceAll(s, old, new) ==
    IF Len(s) < Len(old) THEN s
    ELSE IF SubSeq(s, 1, Len(old)) = old
    THEN new \o ReplaceAll(SubSeq(s, Len(old) + 1, Len(s)), old, new)
    ELSE <<Head(s)>> \o ReplaceAll(Tail(s), old, new)

\* s.split(sep)[-1] for a non-empty text sep
RECURSIVE AfterLast(_, _)
AfterLast(s, sep) ==
    IF Contains(s, sep)
    THEN AfterLast(SubSeq(s, (CHOOSE i \in 1..Len(s) :
                                 /\ SubSeq(s, i, i + Len(sep) - 1) = sep
                                 /\ \A j \in 1..(i - 1) :
                                        SubSeq(s, j, j + Len(sep) - 1) # sep)
                             + Len(sep), Len(s)), sep)
    ELSE s

\* f"{x}" of an Optional[str]
Fmt(o) == IF IsNone(o) THEN <<"N", "o", "n", "e">> ELSE Get(o)

\* the link a search hit ends up with
DblpPaperUrl(info) ==
    LET paper_url == PyOr(DictGet(info, "ee", Some(<<>>)),
                          DictGet(info, "url", Some(<<>>)))
    IN  IF TruthyStr(paper_url) /\ Contains(Get(paper_url), <<"d", "o", "i", ".", "o", "r", "g">>)
           /\ Contains(Get(paper_url), <<"a", "r", "X", "i", "v">>)
        THEN LET arxiv_id == IF Contains(Get(paper_url), <<"a", "r", "X", "i", "v", ".">>)
                             THEN AfterLast(Get(paper_url), <<"a", "r", "X", "i", "v", ".">>)
                             ELSE <<>>
             IN  IF arxiv_id # <<>>
                 THEN Some(<<"h", "t", "t", "p", "s", ":", "/", "/", "a", "r", "x", "i", "v", ".", "o", "r", "g", "/", "a", "b", "s", "/">> \o arxiv_id)
                 ELSE paper_url
        ELSE paper_url

\* one iteration of _fetch_dblp_search's loop, for a hit whose title is text
DblpSearchItem(info) ==
    LET title == ReplaceAll(ReplaceAll(ReplaceAll(
                     Get(DictGet(info, "title", Some(Untitled))),
                     <<"&", "a", "m", "p", ";">>, <<"&">>), <<"&", "l", "t", ";">>, <<"<">>), <<"&", "g", "t", ";">>, <<">">>)
        venue == DictGet(info, "venue", Some(<<>>))
        year  == DictGet(info, "year", Some(<<>>))
    IN  FetchedItem(IF TruthyStr(venue) THEN <<"D", "B", "L", "P", "/">> \o Get(venue) ELSE <<"D", "B", "L", "P">>,
                    Some(title),
                    Some(Fmt(venue) \o <<" ", "(">> \o Fmt(year) \o <<")">>),
                    DblpPaperUrl(info),
                    IF TruthyStr(year) THEN year ELSE None,
                    [source |-> "dblp", venue |-> venue, year |-> year,
                     doi |-> DictGet(info, "doi", Some(<<>>))],
                    Some(AuthorNames(DictGet(info, "authors", <<>>), "text")),
                    Some(title \o <<".", " ">> \o Fmt(venue) \o <<" ", "(">> \o Fmt(year)
                         \o <<")">>),
                    Some(IF TruthyStr(venue) THEN <<Get(venue)>> ELSE <<>>))

\* the loop of _fetch_dblp_search: a hit whose title is null raises inside
\* the try block, which ends the loop and keeps the items so far
RECURSIVE DblpSearchItems(_)
DblpSearchItems(hits) ==
    IF hits = <<>> THEN <<>>
    ELSE IF IsNone(DictGet(Head(hits), "title", Some(Untitled))) THEN <<>>
    ELSE <<DblpSearchItem(Head(hits))>> \o DblpSearchItems(Tail(hits))

_fetch_dblp_search(query, max_results, resp) ==
    IF resp.http # "ok" THEN <<>>
    ELSE IF resp.json.kind = "invalid" THEN <<>>
    ELSE DblpSearchItems(resp.json.hits)

\* conf_urls of _fetch_dblp_rss after the feed item (title, link): a dict
\* in insertion order, as a list of [conf, url]
RECURSIVE MatchConference(_, _, _, _)
MatchConference(conf_urls, conferences, title, link) ==
    IF conferences = <<>> THEN conf_urls
    ELSE IF Contains(Lower(title), Lower(Head(conferences)))
    THEN LET name == Upper(Head(conferences))
         IN  IF \E k \in DOMAIN conf_urls : conf_urls[k].conf = name
             THEN [k \in DOMAIN conf_urls |->
                      IF conf_urls[k].conf = name
                      THEN [conf |-> name, url |-> link] ELSE conf_urls[k]]
             ELSE Append(conf_urls, [conf |-> name, url |-> link])
    ELSE MatchConference(conf_urls, Tail(conferences), title, link)

RECURSIVE ConfUrls(_, _, _)
ConfUrls(conf_urls, channel, conferences) ==
    IF channel = <<>> THEN conf_urls
    ELSE LET item == Head(channel)
         IN  IF IsNone(item.title) \/ IsNone(item.link)
             THEN ConfUrls(conf_urls, Tail(channel), conferences)
             ELSE ConfUrls(MatchConference(conf_urls, conferences,
                                           Get(GetText(item.title)),
                                           Get(GetText(item.link))),
                           Tail(channel), conferences)

\* s.endswith(suffix)
EndsWith(s, suffix) ==
    Len(s) >= Len(suffix) /\ SubSeq(s, Len(s) - Len(suffix) + 1, Len(s)) = suffix

\* paper_url of one proceedings entry, from its links in order
RECURSIVE DblpRssUrl(_, _)
DblpRssUrl(hrefs, paper_url) ==
    IF hrefs = <<>> THEN paper_url
    ELSE IF EndsWith(Head(hrefs), <<".", "p", "d", "f">>) THEN Some(Head(hrefs))
    ELSE IF Contains(Head(hrefs), <<"d", "b", "l", "p", ".", "o", "r", "g", "/", "r", "e", "c", "/">>)
    THEN DblpRssUrl(Tail(hrefs), Some(Head(hrefs)))
    ELSE DblpRssUrl(Tail(hrefs), paper_url)

\* the papers of one proceedings page, at most max_results of them
RECURSIVE DblpRssPapers(_, _, _, _)
DblpRssPapers(conf_name, papers, paper_count, max_results) ==
    IF papers = <<>> \/ paper_count >= max_results THEN <<>>
    ELSE LET paper == Head(papers)
             title == OrElse(GetText(paper.title), <<>>)
             year  == OrElse(GetText(paper.year), <<>>)
         IN  IF title = <<>>
             THEN DblpRssPapers(conf_name, Tail(papers), paper_count, max_results)
             ELSE << FetchedItem(<<"D", "B", "L", "P", " ", "R", "S", "S", "/">> \o conf_name, Some(title),
                                 Some(conf_name \o <<" ">> \o year),
                                 DblpRssUrl(paper.hrefs, None), Some(year),
                                 [source |-> "dblp_rss", venue |-> conf_name,
                                  year |-> year],
                                 Some(NonEmptyTexts(paper.authors)),
                                 Some(title), Some(<<conf_name>>)) >>
                  \o DblpRssPapers(conf_name, Tail(papers), paper_count + 1,
                                   max_results)

\* the loop of _fetch_dblp_rss over conf_urls: a page that fails or does
\* not answer 200 is skipped
RECURSIVE DblpRssItems(_, _, _)
DblpRssItems(conf_urls, pages, max_results) ==
    IF conf_urls = <<>> THEN <<>>
    ELSE LET c == Head(conf_urls)
         IN  (IF c.url \in DOMAIN pages /\ pages[c.url].status = 200
              THEN DblpRssPapers(c.conf, pages[c.url].papers, 0, max_results)
              ELSE <<>>)
             \o DblpRssItems(Tail(conf_urls), pages, max_results)

\* the first item of each title, in order
RECURSIVE UniqueTitles(_, _)
UniqueTitles(items_, seen) ==
    IF items_ = <<>> THEN <<>>
    ELSE IF Head(items_).title \notin seen
    THEN <<Head(items_)>>
         \o UniqueTitles(Tail(items_), seen \cup {Head(items_).title})
    ELSE UniqueTitles(Tail(items_), seen)

_fetch_dblp_rss(conferences, max_results, feed, pages) ==
    IF feed.http # "ok" \/ IsNone(feed.channel) THEN <<>>
    ELSE Take(UniqueTitles(DblpRssItems(ConfUrls(<<>>, Get(feed.channel),
                                                 conferences),
                                        pages, max_results), {}),
              max_results)

\* the adapter that puts the records of the venue feeds before those of the
\* search
_fetch_dblp_feed_first(source, resp) ==
    LET query       == AuthGet(source, "query", Some(<<>>))
        max_results == AuthGet(source, "max_results", DefaultMaxResults)
        conferences == AuthGet(source, "conferences", <<>>)
        found       == IF TruthyStr(query)
                       THEN _fetch_dblp_search(Get(query), max_results, resp.search)
                       ELSE <<>>
        rss_items   == IF conferences # <<>>
                       THEN _fetch_dblp_rss(conferences, max_results,
                                            resp.feed, resp.pages)
                       ELSE <<>>
    IN  Ok(Take(UniqueTitles(rss_items \o found, {}), max_results))

_fetch_dblp(source, resp) ==
    LET query       == AuthGet(source, "query", Some(<<>>))
        max_results == AuthGet(source, "max_results", DefaultMaxResults)
        conferences == AuthGet(source, "conferences", <<>>)
        found       == IF TruthyStr(query)
                       THEN _fetch_dblp_search(Get(query), max_results, resp.search)
                       ELSE <<>>
        rss_items   == IF conferences # <<>>
                       THEN _fetch_dblp_rss(conferences, max_results,
                                            resp.feed, resp.pages)
                       ELSE <<>>
    IN  Ok(Take(UniqueTitles(found \o rss_items, {}), max_results))

---------------------------------------------------------------------------
(* Crawler.fetch *)

KnownSourceTypes == {"api", "web", "arxiv", "arxiv_rss", "acl_anthology",
                     "semantic_scholar", "dblp"}

\* the adapter Crawler.fetch calls for source, answering resp
Adapter(source, resp) ==
    IF source.type = "api" THEN _fetch_api(source, resp)
    ELSE IF source.type = "web" THEN _fetch_web(source, resp)
    ELSE IF source.type = "arxiv" THEN _fetch_arxiv(source, resp)
    ELSE IF source.type = "arxiv_rss" THEN _fetch_arxiv_rss(source, resp)
    ELSE IF source.type = "acl_anthology" THEN _fetch_acl_anthology(source, resp)
    ELSE IF source.type = "semantic_scholar"
    THEN _fetch_semantic_scholar(source, resp)
    ELSE _fetch_dblp(source, resp)

---------------------------------------------------------------------------
(* The task configurations and the responses of the remote sources that    *)
(* the model runs Crawler.fetch on.                                         *)

SourceConfig(type, name, url, selector, fields, auth) ==
    [type |-> type, name |-> name, url |-> url, selector |-> selector,
     fields |-> fields, auth |-> auth]

ApiSource == SourceConfig("api", <<"n", "e", "w", "s">>, <<"h", "t", "t", "p", ":", "/", "/", "a">>, None, None, None)

WebSource == SourceConfig("web", <<"b", "l", "o", "g">>, <<"h", "t", "t", "p", ":", "/", "/", "w">>, Some(<<".", "p", "o", "s", "t">>), None, None)

ArxivSource ==
    SourceConfig("arxiv", <<"a", "r", "x", "i", "v">>, <<"h", "t", "t", "p", ":", "/", "/", "x">>, None, None,
                 Some([search_query |-> Some(<<"v", "l", "a">>), max_results |-> 2]))

ArxivRssSource ==
    SourceConfig("arxiv_rss", <<"r", "s", "s">>, <<"h", "t", "t", "p", ":", "/", "/", "r">>, None, None,
                 Some([categories |-> <<<<"c", "s", ".", "A", "I">>>>, max_results |-> 2]))

AclSource ==
    SourceConfig("acl_anthology", <<"a", "c", "l">>, <<"h", "t", "t", "p", ":", "/", "/", "c">>, None, None,
                 Some([conferences |-> <<<<"A", "C", "L">>>>, max_results |-> 2]))

ScholarSource ==
    SourceConfig("semantic_scholar", <<"s", "2">>, <<"h", "t", "t", "p", ":", "/", "/", "s">>, None, None,
                 Some([query |-> Some(<<"v", "l", "a">>), max_results |-> 2]))

DblpSource ==
    SourceConfig("dblp", <<"d", "b", "l", "p">>, <<"h", "t", "t", "p", ":", "/", "/", "d">>, None, None,
                 Some([query |-> Some(<<"v", "l", "a">>), conferences |-> <<<<"i", "c", "m", "l">>>>,
                       max_results |-> 2]))

\* a source whose type no adapter serves
FeedSource == SourceConfig("rss", <<"f", "e", "e", "d">>, <<"h", "t", "t", "p", ":", "/", "/", "f">>, None, None, None)

SourceConfigs == {ApiSource, WebSource, ArxivSource, ArxivRssSource, AclSource,
                  ScholarSource, DblpSource, FeedSource}

HttpError == [http |-> "error"]

JsonDict(obj) == [kind |-> "dict", obj |-> obj]

\* JSON bodies of an API: a list of two articles, a list with a null title
\* and a bare string, an object holding a "data" list, one with an empty
\* "data" list and a single article
ApiArticles ==
    [kind |-> "list", elems |->
        << JsonDict([title |-> Some(<<"A", " ", "V", "L", "A", " ", "m", "o", "d", "e", "l">>), content |-> Some(<<"r", "o", "b", "o", "t">>),
                     url |-> Some(<<"u", "1">>), date |-> Some(<<"2", "0", "2", "4", "-", "0", "3", "-", "1", "0">>)]),
           JsonDict([name |-> Some(<<"B">>), description |-> Some(<<"n", "l", "p">>),
                     created_at |-> Some(<<"n", "o", "t", "-", "a", "-", "d", "a", "t", "e">>)]) >>]

ApiNullTitle ==
    [kind |-> "list", elems |->
        << JsonDict([title |-> None, body |-> Some(<<"x">>)]),
           [kind |-> "scalar", str |-> <<"7">>] >>]

ApiData ==
    JsonDict([data |-> Some(
        << JsonDict([title |-> Some(<<"B">>), content |-> None]),
           JsonDict([title |-> Some(<<"B">>), link |-> Some(<<"u", "2">>)]) >>)])

ApiNoData == JsonDict([data |-> Some(<<>>)])

ApiArticle == JsonDict([title |-> Some(<<"B">>)])

ApiOk(json) == [http |-> "ok", json |-> json]

ApiResponses ==
    { HttpError,
      ApiOk([kind |-> "invalid"]),
      ApiOk([kind |-> "scalar", str |-> <<"7">>]),
      ApiOk([kind |-> "list", elems |-> <<>>]),
      ApiOk(ApiArticles), ApiOk(ApiNullTitle), ApiOk(ApiData), ApiOk(ApiNoData),
      ApiOk(ApiArticle) }

WebElement(heading, body, dated, text) ==
    [heading |-> heading, body |-> body, dated |-> dated, text |-> text]

WebResponses ==
    { HttpError,
      [http |-> "ok", selected |-> <<>>,
       root |-> WebElement(None, None, None, <<>>)],
      [http |-> "ok",
       selected |-> << WebElement(Some(<<" ", "A", " ">>), Some(<<"x">>), Some(<<"2", "0", "2", "4">>), <<"A", " ", "x">>),
                       WebElement(None, None, None, <<"y">>) >>,
       root |-> WebElement(Some(<<"A">>), None, None, <<"A", " ", "x", " ", "y">>)] }

ArxivEntry(title, summary, published, id, pdf) ==
    [title |-> title, summary |-> summary, published |-> published, id |-> id,
     pdf |-> pdf, authors |-> <<Some(<<"A", "n", "n">>)>>, categories |-> <<<<"c", "s", ".", "A", "I">>>>]

ArxivResponses ==
    { HttpError,
      [http |-> "ok", entries |-> <<>>],
      [http |-> "ok", entries |->
          << ArxivEntry(Some(<<"A", " ", "V", "L", "A", "\n", "m", "o", "d", "e", "l">>), Some(<<"r", "o", "b", "o", "t">>),
                        Some(<<"2", "0", "2", "4", "-", "0", "3", "-", "1", "0", "T", "1", "2", ":", "0", "0", ":", "0", "0", "Z">>),
                        Some(<<"h", "t", "t", "p", ":", "/", "/", "a", "r", "x", "i", "v", ".", "o", "r", "g", "/", "a", "b", "s", "/", "2", "4", "0", "3", ".", "1">>), Some(<<"u", "3">>)),
             ArxivEntry(None, None, None, None, None) >>] }

RssEntry(title, description, pubDate, published, link) ==
    [title |-> title, description |-> description, summary |-> None,
     authors |-> <<>>, pubDate |-> pubDate, dc_date |-> None,
     published |-> published,
     categories |-> <<<<"c", "s", ".", "A", "I">>>>, link |-> link, href |-> None]

RssOld == RssEntry(Some(<<"A">>), Some(<<"r", "o", "b", "o", "t">>),
                   Some(<<"S", "a", "t", ",", " ", "0", "9", " ", "M", "a", "r", " ", "2", "0", "2", "4", " ", "1", "0", ":", "0", "0", ":", "0", "0", " ", "+", "0", "0", "0", "0">>), None,
                   Some(<<"h", "t", "t", "p", "s", ":", "/", "/", "a", "r", "x", "i", "v", ".", "o", "r", "g", "/", "a", "b", "s", "/", "2", "4", "0", "3", ".", "1">>))

RssNew == RssEntry(Some(<<"B">>), None,
                   Some(<<"S", "u", "n", ",", " ", "1", "0", " ", "M", "a", "r", " ", "2", "0", "2", "4", " ", "1", "0", ":", "0", "0", ":", "0", "0", " ", "-", "0", "5", "0", "0">>), None, None)

\* an entry whose only date is a dc:date node, and one whose published node
\* holds a text that is not a date
RssDcDated ==
    [RssEntry(Some(<<"F">>), None, None, None, None)
        EXCEPT !.dc_date = Some(<<"2", "0", "2", "4", "-", "0", "3", "-", "1", "0", "T", "0", "9", ":", "0", "0", ":", "0", "0", "Z">>)]

RssLoose == RssEntry(Some(<<"G">>), None, Some(<<"y", "e", "s", "t", "e", "r", "d", "a", "y">>), Some(<<"s", "o", "o", "n">>), None)

\* dated three hours before RssNew, on the clock of UTC
RssNoon == RssEntry(Some(<<"E">>), None,
                    Some(<<"S", "u", "n", ",", " ", "1", "0", " ", "M", "a", "r", " ", "2", "0", "2", "4", " ", "1", "2", ":", "0", "0", ":", "0", "0", " ", "+", "0", "0", "0", "0">>), None, None)

RssUndated == RssEntry(Some(<<"C">>), Some(<<"n", "l", "p">>), Some(<<"y", "e", "s", "t", "e", "r", "d", "a", "y">>), None, None)

AtomEntry == RssEntry(Some(<<"D">>), None, None,
                      Some(<<"2", "0", "2", "4", "-", "0", "3", "-", "1", "0", "T", "1", "2", ":", "0", "0", ":", "0", "0", "Z">>), None)

ArxivRssResponses ==
    { [rss |-> HttpError, atom |-> HttpError],
      [rss |-> [http |-> "ok", entries |-> <<RssUndated, RssOld, RssNew>>],
       atom |-> HttpError],
      [rss |-> [http |-> "ok", entries |-> <<RssNew, RssNoon>>],
       atom |-> HttpError],
      [rss |-> [http |-> "ok", entries |-> <<RssDcDated, RssLoose>>],
       atom |-> HttpError],
      [rss |-> [http |-> "ok", entries |-> <<>>],
       atom |-> [http |-> "ok", entries |-> <<AtomEntry, RssEntry(None, None, None, None, None)>>]],
      [rss |-> [http |-> "ok", entries |-> <<>>], atom |-> HttpError] }

AclEntry(title, description, pubDate, categories) ==
    [title |-> title, link |-> Some(<<"u", "4">>), description |-> description,
     pubDate |-> pubDate, categories |-> categories]

AclResponses ==
    { HttpError,
      [http |-> "ok", entries |->
          << AclEntry(Some(<<"A">>), Some(<<"n", "l", "p">>),
                      Some(<<"S", "a", "t", ",", " ", "0", "9", " ", "M", "a", "r", " ", "2", "0", "2", "4", " ", "1", "0", ":", "0", "0", ":", "0", "0", " ", "G", "M", "T">>), <<<<"A", "C", "L">>>>),
             AclEntry(None, None, None, <<<<"A", "C", "L">>>>),
             AclEntry(Some(<<"B">>), None, None, <<<<"K", "D", "D">>>>) >>] }

ScholarResponses ==
    { HttpError,
      [http |-> "ok", json |-> [kind |-> "invalid"]],
      [http |-> "ok", json |-> JsonDict([data |-> None])],
      [http |-> "ok", json |-> JsonDict([total |-> Some(<<"0">>)])],
      [http |-> "ok", json |-> JsonDict([data |-> Some(
          << [title |-> Some(<<"A", " ", "V", "L", "A", " ", "m", "o", "d", "e", "l">>), abstract |-> None, year |-> Some(2024),
              venue |-> Some(<<"I", "C", "M", "L">>),
              authors |-> <<[name |-> Some(<<"A", "n", "n">>)], [name |-> None]>>],
             [abstract |-> Some(<<"n", "l", "p">>)] >>)])],
      [http |-> "ok", json |-> JsonDict([data |-> Some(
          << [title |-> None, abstract |-> Some(<<"x">>)] >>)])] }

DblpHits ==
    << [title |-> Some(<<"A", " ", "&", "a", "m", "p", ";", " ", "B">>), venue |-> Some(<<"I", "C", "M", "L">>),
        year |-> Some(<<"2", "0", "2", "4">>),
        ee |-> Some(<<"h", "t", "t", "p", "s", ":", "/", "/", "d", "o", "i", ".", "o", "r", "g", "/", "1", "0", ".", "4", "8", "5", "5", "0", "/", "a", "r", "X", "i", "v", ".", "2", "4", "0", "3", ".", "1">>)],
       [title |-> Some(<<"C">>)],
       [title |-> None],
       [title |-> Some(<<"D">>)] >>

DblpSearchOk == [http |-> "ok", json |-> [kind |-> "dict", hits |-> DblpHits]]

DblpFeedOk ==
    [http |-> "ok",
     channel |-> Some(<< [title |-> Some(<<"I", "C", "M", "L", " ", "2", "0", "2", "4">>), link |-> Some(<<"p", "1">>)],
                         [title |-> None, link |-> Some(<<"p", "2">>)] >>)]

DblpPaper(title, year) ==
    [title |-> title, authors |-> <<<<"A", "n", "n">>>>,
     hrefs |-> <<<<"h", "t", "t", "p", "s", ":", "/", "/", "d", "b", "l", "p", ".", "o", "r", "g", "/", "r", "e", "c", "/", "1">>, <<"a", ".", "p", "d", "f">>>>, year |-> year]

DblpPages ==
    [link \in {<<"p", "1">>} |->
        [status |-> 200,
         papers |-> << DblpPaper(Some(<<"C">>), Some(<<"2", "0", "2", "4">>)),
                       DblpPaper(None, None),
                       DblpPaper(Some(<<"E">>), None) >>]]

DblpNoPages == [link \in {<<"p", "1">>} |-> [status |-> 404, papers |-> <<>>]]

DblpResponses ==
    { [search |-> HttpError, feed |-> HttpError, pages |-> DblpNoPages],
      [search |-> DblpSearchOk, feed |-> HttpError, pages |-> DblpNoPages],
      [search |-> HttpError, feed |-> DblpFeedOk, pages |-> DblpPages],
      [search |-> DblpSearchOk, feed |-> DblpFeedOk, pages |-> DblpPages],
      [search |-> [http |-> "ok", json |-> [kind |-> "invalid"]],
       feed |-> [http |-> "ok", channel |-> None], pages |-> DblpNoPages],
      [search |-> DblpSearchOk, feed |-> DblpFeedOk, pages |-> DblpNoPages] }

\* what the remote end of a source of the given type may answer
Responses(type) ==
    IF type = "api" THEN ApiResponses
    ELSE IF type = "web" THEN WebResponses
    ELSE IF type = "arxiv" THEN ArxivResponses
    ELSE IF type = "arxiv_rss" THEN ArxivRssResponses
    ELSE IF type = "acl_anthology" THEN AclResponses
    ELSE IF type = "semantic_scholar" THEN ScholarResponses
    ELSE DblpResponses

---------------------------------------------------------------------------
(* The run of Crawler.fetch(task) *)

\* the longest source list of a task
MaxSources == 2

\* the sequences over S of length at most n
BoundedSeq(S, n) == UNION {[1..k -> S] : k \in 0..n}

\* a clock for the runs that read none: 2024-03-11 00:00:00
Midnight == [day |-> Ymd2Ord(2024, 3, 11), sec |-> 0, us |-> 0]

\* the handler that catches only the transport's exceptions
CaughtTransport(exc) == exc = "RequestException"

\* `except Exception`: the exceptions the handler of Crawler.fetch catches
Caught(exc) == exc \in {"RequestException", "JSONDecodeError", "TypeError",
                        "ValueError", "AttributeError", "KeyError"}

\* the loop body that leaves out the records all_data already holds
RECURSIVE ExtendNew(_, _)
ExtendNew(all_data_, data) ==
    IF ~data.ok \/ data.val = <<>> THEN all_data_
    ELSE ExtendNew(IF Head(data.val) \in Range(all_data_) THEN all_data_
                   ELSE Append(all_data_, Head(data.val)),
                   Ok(Tail(data.val)))

\* all_data after the loop body has run for a source whose adapter gave data
Extend(all_data_, data) ==
    IF data.ok THEN all_data_ \o data.val ELSE all_data_

\* SettingsConfig with the given retry and the default timeout
SettingsConfig(retry) == [timeout |-> 30, retry |-> retry]

\* the settings of a run: no retry, and the default of three
Settings == {SettingsConfig(0), SettingsConfig(3)}

Init ==
    /\ sources \in BoundedSeq(SourceConfigs, MaxSources)
    /\ settings \in Settings
    /\ declared = <<>>
    /\ filters = <<>>
    /\ now = Midnight
    /\ pc = "fetch"
    /\ si = 1
    /\ all_data = <<>>
    /\ calls = <<>>
    /\ items = <<>>
    /\ fi = 1
    /\ filtered = <<>>
    /\ stages = <<>>
    /\ result = None

\* the loop body that calls the adapter of a source again after it raised,
\* up to settings.retry more times
fetch_step_retrying ==
    /\ pc = "fetch"
    /\ si <= Len(sources)
    /\ LET source == sources[si]
       IN  IF source.type \notin KnownSourceTypes
           THEN /\ calls' = Append(calls, [source |-> si, invoked |-> FALSE])
                /\ all_data' = all_data
                /\ pc' = pc
                /\ si' = si + 1
           ELSE \E resp \in Responses(source.type) :
                    \E data \in {Adapter(source, resp)} :
                        /\ calls' = Append(calls, [source |-> si, invoked |-> TRUE,
                                                   resp |-> resp,
                                                   data |-> data])
                        /\ all_data' = Extend(all_data, data)
                        /\ pc' = IF data.ok \/ Caught(data.exc) THEN pc
                                 ELSE "raised"
                        /\ si' = IF /\ ~data.ok
                                    /\ Cardinality({k \in DOMAIN calls :
                                                      calls[k].source = si})
                                           < settings.retry
                                 THEN si ELSE si + 1
    /\ UNCHANGED <<sources, settings, declared, filters, now, items, fi, filtered, stages,
                   result>>

\* the loop body that raises for a source whose type no adapter serves
fetch_step_strict ==
    /\ pc = "fetch"
    /\ si <= Len(sources)
    /\ LET source == sources[si]
       IN  IF source.type \notin KnownSourceTypes
           THEN /\ calls' = Append(calls, [source |-> si, invoked |-> FALSE])
                /\ all_data' = all_data
                /\ pc' = "raised"
           ELSE \E resp \in Responses(source.type) :
                    \E data \in {Adapter(source, resp)} :
                        /\ calls' = Append(calls, [source |-> si, invoked |-> TRUE,
                                                   resp |-> resp,
                                                   data |-> data])
                        /\ all_data' = Extend(all_data, data)
                        /\ pc' = IF data.ok \/ Caught(data.exc) THEN pc
                                 ELSE "raised"
    /\ si' = si + 1
    /\ UNCHANGED <<sources, settings, declared, filters, now, items, fi, filtered, stages, result>>

\* one iteration of the loop of Crawler.fetch, over source number si
fetch_step ==
    /\ pc = "fetch"
    /\ si <= Len(sources)
    /\ LET source == sources[si]
       IN  IF source.type \notin KnownSourceTypes
           THEN /\ calls' = Append(calls, [source |-> si, invoked |-> FALSE])
                /\ all_data' = all_data
                /\ pc' = pc
           ELSE \E resp \in Responses(source.type) :
                    \E data \in {Adapter(source, resp)} :
                        /\ calls' = Append(calls, [source |-> si, invoked |-> TRUE,
                                                   resp |-> resp,
                                                   data |-> data])
                        /\ all_data' = Extend(all_data, data)
                        /\ pc' = IF data.ok \/ Caught(data.exc) THEN pc
                                 ELSE "raised"
    /\ si' = si + 1
    /\ UNCHANGED <<sources, settings, declared, filters, now, items, fi, filtered, stages, result>>

\* return all_data
fetch_return ==
    /\ pc = "fetch"
    /\ si > Len(sources)
    /\ pc' = "done"
    /\ result' = Some(all_data)
    /\ UNCHANGED <<sources, settings, declared, filters, now, si, all_data, calls, items, fi,
                   filtered, stages>>

Next == fetch_step \/ fetch_return

Spec == Init /\ [][Next]_vars

---------------------------------------------------------------------------
(* Properties of Crawler.fetch *)

\* a is b with zero or more elements left out, the order kept
RECURSIVE IsSubsequence(_, _)
IsSubsequence(a, b) ==
    IF a = <<>> THEN TRUE
    ELSE IF b = <<>> THEN FALSE
    ELSE IF Head(a) = Head(b) THEN IsSubsequence(Tail(a), Tail(b))
    ELSE IsSubsequence(a, Tail(b))

\* the lists the adapters called so far returned, one after the other
RECURSIVE Returned(_, _)
Returned(log, k) ==
    IF k > Len(log) THEN <<>>
    ELSE (IF log[k].invoked /\ log[k].data.ok THEN log[k].data.val ELSE <<>>)
         \o Returned(log, k + 1)

\* C1: whatever exception the adapter of a source raises, fetch does not
\* propagate it, goes on to call the adapter of every later source in the
\* order of the list, and returns the records of every source whose adapter
\* returned.
FetchIsolatesFailures ==
    /\ pc # "raised"
    /\ Len(calls) = si - 1
    /\ \A k \in DOMAIN calls :
          /\ calls[k].source = k
          /\ calls[k].invoked <=> sources[k].type \in KnownSourceTypes
    /\ pc = "done" =>
          /\ Len(calls) = Len(sources)
          /\ \A k \in DOMAIN calls :
                calls[k].invoked /\ calls[k].data.ok
                    => IsSubsequence(calls[k].data.val, Get(result))

\* a source failed, a later one returned records, and fetch returned them
FetchIsolatesFailuresWitness ==
    /\ pc = "done"
    /\ \E j \in DOMAIN calls, k \in DOMAIN calls :
          /\ j < k
          /\ calls[j].invoked /\ ~calls[j].data.ok
          /\ calls[j].data.exc # "RequestException"
          /\ calls[k].invoked /\ calls[k].data.ok
          /\ calls[k].data.val # <<>>
          /\ Get(result) = calls[k].data.val

\* C3: no adapter returns a record whose title or content is null: a missing
\* title is "Untitled" ("Item <index>" for the JSON API adapter), a missing
\* content the empty string.
TitleAndContentNeverNull ==
    \A k \in DOMAIN calls :
        calls[k].invoked /\ calls[k].data.ok =>
            \A n \in DOMAIN calls[k].data.val :
                /\ ~IsNone(calls[k].data.val[n].title)
                /\ ~IsNone(calls[k].data.val[n].content)

\* C4: the result of fetch is the concatenation, in the order of the task's
\* sources, of the lists the adapters returned: nothing is removed or merged,
\* even when two sources return the same record.
FetchConcatenates ==
    /\ all_data = Returned(calls, 1)
    /\ pc = "done" => Get(result) = Returned(calls, 1)

\* two sources returned the same record and the result holds it twice
FetchConcatenatesWitness ==
    /\ pc = "done"
    /\ Len(calls) = 2
    /\ calls[1].invoked /\ calls[1].data.ok
    /\ calls[2].invoked /\ calls[2].data.ok
    /\ Len(calls[1].data.val) = 2
    /\ calls[2].data.val = calls[1].data.val
    /\ Len(Get(result)) = 4

---------------------------------------------------------------------------
(* The run of ContentFilter.filter(items) *)

\* FilterConfig(type): a rule with every other field at its default
FilterConfig(type) ==
    [type |-> type, pattern |-> None, action |-> "keep", keywords |-> None,
     match |-> "any", min |-> None, max |-> None, fields |-> None,
     scope |-> "all", case_sensitive |-> FALSE, days |-> None, hours |-> None]

\* filtered = self._filter_<type>(given, filter_config), for rule number fi
Stage(given) ==
    \E out \in {ApplyRule(given, filters[fi], now)} :
        /\ stages' = Append(stages,
                            [rule |-> filters[fi],
                             applied |-> filters[fi].type \in KnownFilterTypes,
                             input |-> given, out |-> out])
        /\ filtered' = IF out.ok THEN out.val ELSE filtered
        /\ fi' = IF out.ok THEN fi + 1 ELSE fi
        /\ pc' = IF out.ok THEN pc ELSE "raised"

\* the loop whose every stage reads the list filter was called with
filter_step_on_items ==
    /\ pc = "filter"
    /\ fi <= Len(filters)
    /\ Stage(items)
    /\ UNCHANGED <<sources, settings, declared, filters, now, si, all_data, calls, items, result>>

\* one iteration of the loop of ContentFilter.filter, over rule number fi
filter_step ==
    /\ pc = "filter"
    /\ fi <= Len(filters)
    /\ Stage(filtered)
    /\ UNCHANGED <<sources, settings, declared, filters, now, si, all_data, calls, items, result>>

\* return filtered
filter_return ==
    /\ pc = "filter"
    /\ fi > Len(filters)
    /\ pc' = "done"
    /\ result' = Some(filtered)
    /\ UNCHANGED <<sources, settings, declared, filters, now, si, all_data, calls, items, fi,
                   filtered, stages>>

\* ContentFilter(task).filter(given) starts: filtered = items
FilterCalled(given, rules, clock) ==
    /\ sources = <<>>
    /\ settings = SettingsConfig(3)
    /\ declared = <<>>
    /\ filters = rules
    /\ now = clock
    /\ pc = "filter"
    /\ si = 1
    /\ all_data = <<>>
    /\ calls = <<>>
    /\ items = given
    /\ fi = 1
    /\ filtered = given
    /\ stages = <<>>
    /\ result = None

NextFilter == filter_step \/ filter_return

---------------------------------------------------------------------------
(* The pipeline on records of the API adapter, under rules of every kind *)

\* the longest record list and the longest rule list of the pipeline's runs
MaxItems == 2

MaxRules == 2

\* the records _fetch_api makes of a JSON body
ApiRecords(json) == Range(_fetch_api(ApiSource, ApiOk(json)).val)

FilterPool == ApiRecords(ApiArticles) \cup ApiRecords(ApiNullTitle)
                  \cup ApiRecords(ApiData)

RegexKeepRule == [FilterConfig("regex") EXCEPT !.pattern = Some(<<"v", "l", "a">>)]

\* a pattern that opens a group and never closes it
RegexOpenRule == [FilterConfig("regex") EXCEPT !.pattern = Some(<<"(">>)]

KeywordRemoveRule ==
    [FilterConfig("keyword") EXCEPT !.keywords = Some(<<<<"n", "l", "p">>>>),
                                    !.action = "remove"]

LengthRule == [FilterConfig("length") EXCEPT !.min = Some(3)]

DeduplicateRule == FilterConfig("deduplicate")

DateRule == [FilterConfig("date") EXCEPT !.hours = Some(12)]

\* a rule of a type no stage serves
SortRule == FilterConfig("sort")

FilterRules == {RegexKeepRule, RegexOpenRule, KeywordRemoveRule, LengthRule,
                DeduplicateRule, DateRule, SortRule}

InitFilter ==
    \E given \in BoundedSeq(FilterPool, MaxItems),
       rules \in BoundedSeq(FilterRules, MaxRules) :
        FilterCalled(given, rules, Midnight)

SpecFilter == InitFilter /\ [][NextFilter]_vars

---------------------------------------------------------------------------
(* Properties of ContentFilter.filter *)

\* C2: ContentFilter.filter never propagates an exception to its caller,
\* whatever records the adapters produced and whatever rules are configured.
FilterNeverRaises == pc # "raised"

\* C5: the rules are applied in their declared order, each one once: the
\* first stage receives the list filter was called with, each later stage
\* the output of the stage before it, and filter returns the output of the
\* last stage (its input when there is no rule).
StagesRunInOrder ==
    /\ Len(stages) = IF pc = "raised" THEN fi ELSE fi - 1
    /\ \A k \in DOMAIN stages :
          /\ stages[k].rule = filters[k]
          /\ stages[k].applied <=> filters[k].type \in KnownFilterTypes
          /\ stages[k].input = IF k = 1 THEN items ELSE stages[k - 1].out.val
    /\ pc = "done" =>
          /\ Len(stages) = Len(filters)
          /\ Get(result) = IF filters = <<>> THEN items
                           ELSE stages[Len(stages)].out.val

\* two stages ran, the first one dropped a record, and filter returned what
\* the second made of the first one's output
StagesRunInOrderWitness ==
    /\ pc = "done"
    /\ Len(stages) = 2
    /\ stages[1].applied /\ stages[2].applied
    /\ stages[1].rule # stages[2].rule
    /\ Len(stages[1].out.val) < Len(items)
    /\ Len(stages[2].out.val) < Len(stages[1].out.val)
    /\ Get(result) = stages[2].out.val

\* C6: a stage of any kind only selects: its output is a subsequence of its
\* input, the records unchanged in every field, and the list filter was
\* called with stays as it was; so the result of the pipeline is a
\* subsequence of that list and no longer than it.
StagesOnlySelect ==
    /\ \A k \in DOMAIN stages :
          stages[k].out.ok => IsSubsequence(stages[k].out.val, stages[k].input)
    /\ stages # <<>> => stages[1].input = items
    /\ pc = "done" => /\ IsSubsequence(Get(result), items)
                      /\ Len(Get(result)) <= Len(items)

\* a regex stage kept the second of two records and dropped the first
StagesOnlySelectWitness ==
    /\ pc = "done"
    /\ Len(items) = 2
    /\ Len(stages) = 1
    /\ stages[1].rule.type = "regex"
    /\ Get(result) = <<items[2]>>
    /\ items[1] # items[2]

---------------------------------------------------------------------------
(* The deduplicate stage alone, on records whose keys collide *)

\* the longest record list of the deduplicate stage's runs
MaxDedupItems == 3

\* the record _fetch_api makes of one JSON object with these values
ApiRecord(title, content, url, date) ==
    ApiItem(ApiSource, 0,
            JsonDict([title |-> title, content |-> content, url |-> url,
                      date |-> date]))

\* n times the character c
Repeat(c, n) == [k \in 1..n |-> c]

\* records that share a title, a URL, a content, the first KeyContentLen
\* characters of a content, or the text of their joined key; one has no URL
\* and one has no title
DedupPool ==
    { ApiRecord(Some(<<"A">>), Some(<<"x">>), Some(<<"u">>), None),
      ApiRecord(Some(<<"A">>), Some(<<"y">>), Some(<<"v">>), None),
      ApiRecord(Some(<<"B">>), Some(<<"x">>), Some(<<"u">>), None),
      ApiRecord(Some(<<"A">>), Some(<<"x">>), None, None),
      ApiRecord(Some(<<"a", "|", "b">>), Some(<<>>), Some(<<"c">>), None),
      ApiRecord(Some(<<"a">>), Some(<<>>), Some(<<"b", "|", "c">>), None),
      ApiRecord(Some(<<"C">>), Some(Repeat("x", KeyContentLen) \o <<"a">>), None, None),
      ApiRecord(Some(<<"D">>), Some(Repeat("x", KeyContentLen) \o <<"b">>), None, None),
      ApiRecord(None, Some(<<"x">>), Some(<<"u">>), None) }

DedupFieldLists ==
    { None, Some(<<>>), Some(<<"title">>), Some(<<"url">>), Some(<<"content">>),
      Some(<<"title", "url">>), Some(<<"title", "content", "url">>),
      Some(<<"author">>) }

DedupRules ==
    { [FilterConfig("deduplicate") EXCEPT !.fields = f] : f \in DedupFieldLists }

InitDedup ==
    \E given \in BoundedSeq(DedupPool, MaxDedupItems), rule \in DedupRules :
        FilterCalled(given, <<rule>>, Midnight)

SpecDedup == InitDedup /\ [][NextFilter]_vars

\* the key the stage of rule gives item
KeyOf(item, rule) == DedupKey(item, DedupFields(rule)).val

\* the records of input that no earlier record of input shares its key with
RECURSIVE FirstOfEachKey(_, _, _)
FirstOfEachKey(input, rule, i) ==
    IF i > Len(input) THEN <<>>
    ELSE (IF \E j \in 1..(i - 1) : KeyOf(input[j], rule) = KeyOf(input[i], rule)
          THEN <<>> ELSE <<input[i]>>)
         \o FirstOfEachKey(input, rule, i + 1)

\* C7: the output of the deduplicate stage is no longer than its input, no
\* two of its records have the same key, it keeps the order in which the
\* keys were first seen, and the record it keeps for a key is the first
\* record of the input with that key: one record for each key of the input.
DeduplicateKeepsFirst ==
    \A k \in DOMAIN stages :
        stages[k].rule.type = "deduplicate" /\ stages[k].out.ok =>
            LET input  == stages[k].input
                output == stages[k].out.val
                rule   == stages[k].rule
            IN  /\ Len(output) <= Len(input)
                /\ \A m, n \in DOMAIN output :
                      m # n => KeyOf(output[m], rule) # KeyOf(output[n], rule)
                /\ IsSubsequence(output, input)
                /\ output = FirstOfEachKey(input, rule, 1)
                /\ Len(output) =
                      Cardinality({KeyOf(input[n], rule) : n \in DOMAIN input})

\* of three records the first and the last had the same key and differed:
\* the stage kept the first two
DeduplicateKeepsFirstWitness ==
    /\ pc = "done"
    /\ Len(items) = 3
    /\ items[1] # items[3]
    /\ KeyOf(items[1], filters[1]) = KeyOf(items[3], filters[1])
    /\ KeyOf(items[1], filters[1]) # KeyOf(items[2], filters[1])
    /\ Get(result) = <<items[1], items[2]>>

\* the value of a configured field that the claim compares: the title, the
\* first KeyContentLen characters of the content, the url or its absence
FieldValue(item, field) ==
    IF field = "title" THEN item.title
    ELSE IF field = "content"
    THEN Some(Prefix(Get(item.content), KeyContentLen))
    ELSE item.url

\* the configured fields that are fields of the key
KeyFields(rule) ==
    {f \in Range(DedupFields(rule)) : f \in {"title", "content", "url"}}

\* two records differ in at least one configured field
DifferOnFields(a, b, rule) ==
    \E f \in KeyFields(rule) : FieldValue(a, f) # FieldValue(b, f)

\* C28: the composite key is injective on the configured fields: two
\* records of the input that differ in at least one configured field never
\* get the same key, also when a value contains the separator "|" or a
\* record has no url.
DedupKeyInjective ==
    \A k \in DOMAIN stages :
        stages[k].rule.type = "deduplicate" /\ stages[k].out.ok =>
            \A m, n \in DOMAIN stages[k].input :
                \E a \in {stages[k].input[m]}, b \in {stages[k].input[n]} :
                    DifferOnFields(a, b, stages[k].rule)
                    => KeyOf(a, stages[k].rule) # KeyOf(b, stages[k].rule)

\* no value of a configured field of item holds the separator
SeparatorFree(item, rule) ==
    \A f \in KeyFields(rule) :
        \E v \in {FieldValue(item, f)} :
            IsNone(v) \/ \A c \in DOMAIN Get(v) : Get(v)[c] # "|"

\* among records whose configured fields hold no separator the key is
\* injective, a record without url included
DedupKeyInjectiveWithoutSeparator ==
    \A k \in DOMAIN stages :
        stages[k].rule.type = "deduplicate" /\ stages[k].out.ok =>
            \A m, n \in DOMAIN stages[k].input :
                \E a \in {stages[k].input[m]}, b \in {stages[k].input[n]} :
                    /\ DifferOnFields(a, b, stages[k].rule)
                    /\ SeparatorFree(a, stages[k].rule)
                    /\ SeparatorFree(b, stages[k].rule)
                    => KeyOf(a, stages[k].rule) # KeyOf(b, stages[k].rule)

\* a record without url differed from the record before it in the url
\* only, and the stage on title and url kept both
DedupKeyAbsentUrlKept ==
    /\ pc = "done"
    /\ Len(items) = 2
    /\ filters[1].fields = Some(<<"title", "url">>)
    /\ items[1].title = items[2].title
    /\ ~IsNone(items[1].url)
    /\ IsNone(items[2].url)
    /\ Get(result) = items

---------------------------------------------------------------------------
(* The date stage alone, on records dated around the cutoff *)

\* the longest record list of the date and keyword stages' runs
MaxStageItems == 2

\* a second clock: 2024-03-11 12:00:00.000001
Noon == [day |-> Ymd2Ord(2024, 3, 11), sec |-> 12 * SecondsPerHour, us |-> 1]

Clocks == {Midnight, Noon}

\* the record _fetch_api makes of an article with this date
Dated(date) == ApiRecord(Some(<<"P">>), Some(<<>>), None, date)

\* dates in each accepted format, on both sides of a cutoff and on it, and
\* dates no format accepts
Dates ==
    { None, Some(<<>>), Some(<<"n", "o", "t", "-", "a", "-", "d", "a", "t", "e">>), Some(<<"2", "0", "2", "4", "-", "0", "3", "-", "1", "0">>),
      Some(<<"2", "0", "2", "4", "-", "0", "3", "-", "0", "9">>), Some(<<"2", "0", "2", "4", "-", "0", "3", "-", "1", "0", "T", "1", "2", ":", "0", "0", ":", "0", "0">>),
      Some(<<"2", "0", "2", "4", "-", "0", "3", "-", "1", "0", " ", "0", "0", ":", "0", "0", ":", "0", "0">>), Some(<<"1", "0", " ", "M", "a", "r", " ", "2", "0", "2", "4">>), Some(<<"2", "0", "2", "4">>),
      Some(<<"2", "0", "2", "4", "-", "0", "3", "-", "1", "0", "T", "1", "2", ":", "0", "0", ":", "0", "0", "Z">>), Some(<<" ", "2", "0", "2", "4", "-", "0", "3", "-", "0", "9", " ">>) }

DatePool ==
    {Dated(d) : d \in Dates}
        \cup {ApiRecord(None, Some(<<>>), None, Some(<<"n", "o", "t", "-", "a", "-", "d", "a", "t", "e">>))}

Windows ==
    { [days |-> None, hours |-> None], [days |-> None, hours |-> Some(24)],
      [days |-> None, hours |-> Some(48)], [days |-> Some(1), hours |-> None],
      [days |-> Some(7), hours |-> Some(0)],
      [days |-> Some(0), hours |-> Some(0)],
      [days |-> Some(1), hours |-> Some(48)],
      [days |-> Some(800000), hours |-> None] }

\* the last window reaches back beyond the first day of the calendar
DateRules ==
    { [FilterConfig("date") EXCEPT !.days = w.days, !.hours = w.hours] :
        w \in Windows }

InitDate ==
    \E given \in BoundedSeq(DatePool, MaxStageItems), rule \in DateRules,
       clock \in Clocks :
        FilterCalled(given, <<rule>>, clock)

SpecDate == InitDate /\ [][NextFilter]_vars

\* the rule configures a window: a positive number of hours or of days
HasWindow(rule) ==
    \/ ~IsNone(rule.hours) /\ Get(rule.hours) > 0
    \/ ~IsNone(rule.days) /\ Get(rule.days) > 0

\* the items of s whose date no format reads
RECURSIVE Unreadable(_)
Unreadable(s) ==
    IF s = <<>> THEN <<>>
    ELSE (IF IsNone(ItemDate(Head(s))) THEN <<Head(s)>> ELSE <<>>)
         \o Unreadable(Tail(s))

\* C8: under every window of hours or of days, each record whose date is
\* absent, empty or in none of the accepted formats is in the output of the
\* date stage.
DateFailsOpen ==
    \A k \in DOMAIN stages :
        /\ stages[k].rule.type = "date"
        /\ HasWindow(stages[k].rule)
        /\ stages[k].out.ok
        => Unreadable(stages[k].out.val) = Unreadable(stages[k].input)

\* under a window of 24 hours the stage dropped a record dated two days
\* back and kept one whose date no format reads
DateFailsOpenWitness ==
    /\ pc = "done"
    /\ filters[1].hours = Some(24)
    /\ Len(items) = 2
    /\ ~IsNone(ItemDate(items[1]))
    /\ IsNone(ItemDate(items[2]))
    /\ TruthyStr(items[2].date)
    /\ Get(result) = <<items[2]>>

\* a is earlier than b
Earlier(a, b) ==
    \/ a.day < b.day
    \/ a.day = b.day /\ a.sec < b.sec
    \/ a.day = b.day /\ a.sec = b.sec /\ a.us < b.us

\* the cutoff of the stage of rule: the clock less the window
Cutoff(rule, clock) ==
    IF ~IsNone(rule.hours) /\ Get(rule.hours) > 0
    THEN MinusTimedelta(clock, 0, Get(rule.hours)).val
    ELSE MinusTimedelta(clock, Get(rule.days), 0).val

\* C9: under a window, a record whose date parses is in the output of the
\* date stage exactly when that date is not earlier than the cutoff, the
\* clock less the window: a record dated at the cutoff is kept, and one
\* dated 48 hours back is dropped under a window of 24 hours.
DateKeepsFromCutoff ==
    \A k \in DOMAIN stages :
        /\ stages[k].rule.type = "date"
        /\ HasWindow(stages[k].rule)
        /\ stages[k].out.ok
        => /\ \A n \in DOMAIN stages[k].input :
                 LET item == stages[k].input[n]
                 IN  ~IsNone(ItemDate(item)) =>
                        (item \in Range(stages[k].out.val)
                            <=> ~Earlier(Get(ItemDate(item)),
                                         Cutoff(stages[k].rule, now)))
           /\ now = Midnight /\ stages[k].rule.hours = Some(24) =>
                 /\ Dated(Some(<<"2", "0", "2", "4", "-", "0", "3", "-", "1", "0">>)) \in Range(stages[k].input)
                       => Dated(Some(<<"2", "0", "2", "4", "-", "0", "3", "-", "1", "0">>)) \in Range(stages[k].out.val)
                 /\ Dated(Some(<<"2", "0", "2", "4", "-", "0", "3", "-", "0", "9">>)) \notin Range(stages[k].out.val)

\* at midnight, under a window of 24 hours, the stage kept a record dated
\* the midnight before and dropped one dated the midnight before that
DateKeepsFromCutoffWitness ==
    /\ pc = "done"
    /\ now = Midnight
    /\ filters[1].hours = Some(24)
    /\ items = <<Dated(Some(<<"2", "0", "2", "4", "-", "0", "3", "-", "0", "9">>)), Dated(Some(<<"2", "0", "2", "4", "-", "0", "3", "-", "1", "0">>))>>
    /\ Get(result) = <<Dated(Some(<<"2", "0", "2", "4", "-", "0", "3", "-", "1", "0">>))>>

---------------------------------------------------------------------------
(* The keyword stage alone, run once or twice over *)

\* the record _fetch_semantic_scholar makes of one paper
ScholarRecord(paper) == ScholarItem(ScholarSource, paper)

KeywordPool ==
    ApiRecords(ApiArticles)
        \cup { ApiRecord(Some(<<"n", "l", "p", " ", "f", "o", "r", " ", "V", "L", "A">>), Some(<<"R", "o", "b", "o", "t">>), None, None),
               ApiRecord(None, Some(<<"v", "l", "a">>), None, None),
               ScholarRecord([title |-> Some(<<"R", "o", "b", "o", "t">>),
                              abstract |-> Some(<<"a", " ", "v", "l", "a", " ", "m", "o", "d", "e", "l">>)]),
               ScholarRecord([title |-> Some(<<"C">>), abstract |-> None]) }

KeywordLists ==
    { None, Some(<<<<"v", "l", "a">>>>), Some(<<<<"V", "L", "A">>, <<"r", "o", "b", "o", "t">>>>),
      Some(<<<<"n", "l", "p">>, <<"x">>>>), Some(<<<<>>>>) }

KeywordRules ==
    { [FilterConfig("keyword") EXCEPT !.keywords = kws, !.match = m,
                                      !.action = a, !.scope = sc,
                                      !.case_sensitive = cs] :
        kws \in KeywordLists, m \in {"any", "all"}, a \in {"keep", "remove"},
        sc \in {"all", "title", "abstract"}, cs \in BOOLEAN }

InitKeyword ==
    \E given \in BoundedSeq(KeywordPool, MaxStageItems), rule \in KeywordRules :
        \E rules \in {<<rule>>, <<rule, rule>>} :
            FilterCalled(given, rules, Midnight)

SpecKeyword == InitKeyword /\ [][NextFilter]_vars

\* C10: the keyword stage with match "any" and action "keep" is idempotent:
\* for every keyword list, scope and case setting, the stage applied to its
\* own output returns that output.
KeywordKeepIdempotent ==
    /\ Len(stages) = 2
    /\ stages[1].rule = stages[2].rule
    /\ stages[1].rule.type = "keyword"
    /\ stages[1].rule.match = "any"
    /\ stages[1].rule.action = "keep"
    => /\ stages[2].input = stages[1].out.val
       /\ stages[2].out = stages[1].out

\* the stage kept one of two records and dropped the other, and kept the
\* same one when run on its output
KeywordKeepIdempotentWitness ==
    /\ pc = "done"
    /\ Len(stages) = 2
    /\ stages[1].rule.match = "any"
    /\ stages[1].rule.action = "keep"
    /\ Len(items) = 2
    /\ Len(stages[1].out.val) = 1
    /\ Get(result) = stages[1].out.val

---------------------------------------------------------------------------
(* A regex or keyword stage alone, on records whose title, abstract and     *)
(* content differ                                                           *)

\* the record _fetch_dblp_search makes of one hit
DblpRecord(info) == DblpSearchItem(info)

\* an article without an abstract, one in capitals, a dblp hit whose
\* abstract and content differ from its title, a paper whose abstract is its
\* content, and an article without a title
TextPool ==
    { ApiRecord(Some(<<"A", " ", "V", "L", "A", " ", "m", "o", "d", "e", "l">>), Some(<<"r", "o", "b", "o", "t">>), None, None),
      ApiRecord(Some(<<"T", "E", "S", "T", " ", "c", "a", "s", "e">>), Some(<<"x">>), None, None),
      ApiRecord(Some(<<"B">>), Some(<<"n", "l", "p", " ", "t", "e", "s", "t">>), None, None),
      DblpRecord([title |-> Some(<<"B">>), venue |-> Some(<<"V", "L", "A">>)]),
      ScholarRecord([title |-> Some(<<"R", "o", "b", "o", "t">>), abstract |-> Some(<<"a", " ", "v", "l", "a", " ", "m", "o", "d", "e", "l">>)]),
      ApiRecord(None, Some(<<"v", "l", "a">>), None, None) }

Scopes == {"all", "title", "abstract"}

Patterns == {None, Some(<<>>), Some(<<"v", "l", "a">>), Some(<<"V", "L", "A">>), Some(<<"t", "e", "s", "t">>), Some(<<"B", ".">>)}

\* "drop" is an action neither stage knows
RegexRules ==
    { [FilterConfig("regex") EXCEPT !.pattern = p, !.action = a, !.scope = sc,
                                    !.case_sensitive = cs] :
        p \in Patterns, a \in {"keep", "remove", "drop"}, sc \in Scopes,
        cs \in BOOLEAN }

TextKeywordLists ==
    { None, Some(<<>>), Some(<<<<"v", "l", "a">>>>), Some(<<<<"V", "L", "A">>, <<"r", "o", "b", "o", "t">>>>), Some(<<<<"t", "e", "s", "t">>, <<"B">>>>),
      Some(<<<<"l", " ", "r">>>>) }

TextKeywordRules ==
    { [FilterConfig("keyword") EXCEPT !.keywords = kws, !.match = m,
                                      !.action = a, !.scope = sc,
                                      !.case_sensitive = cs] :
        kws \in TextKeywordLists, m \in {"any", "all"},
        a \in {"keep", "remove", "drop"}, sc \in Scopes, cs \in BOOLEAN }

InitText ==
    \E given \in BoundedSeq(TextPool, MaxStageItems),
       rule \in RegexRules \cup TextKeywordRules :
        FilterCalled(given, <<rule>>, Midnight)

SpecText == InitText /\ [][NextFilter]_vars

\* the stage of a regex or keyword rule
TextStage(given, rule) ==
    IF rule.type = "regex" THEN _filter_regex(given, rule)
    ELSE _filter_keyword(given, rule)

\* an optional text in capitals, in small letters
UpperText(o) == IF IsNone(o) THEN o ELSE Some(Upper(Get(o)))

LowerText(o) == IF IsNone(o) THEN o ELSE Some(Lower(Get(o)))

\* the records with their title, content and abstract in capitals, in small
\* letters
UpperItems(s) ==
    [k \in DOMAIN s |-> [s[k] EXCEPT !.title = UpperText(@),
                                     !.content = UpperText(@),
                                     !.abstract = UpperText(@)]]

LowerItems(s) ==
    [k \in DOMAIN s |-> [s[k] EXCEPT !.title = LowerText(@),
                                     !.content = LowerText(@),
                                     !.abstract = LowerText(@)]]

\* the rule with its pattern and keywords in capitals, in small letters
UpperRule(rule) ==
    [rule EXCEPT !.pattern = UpperText(@),
                 !.keywords = IF IsNone(@) THEN @
                              ELSE Some([k \in DOMAIN Get(@) |-> Upper(Get(@)[k])])]

LowerRule(rule) ==
    [rule EXCEPT !.pattern = LowerText(@),
                 !.keywords = IF IsNone(@) THEN @
                              ELSE Some([k \in DOMAIN Get(@) |-> Lower(Get(@)[k])])]

---------------------------------------------------------------------------
(* The length stage alone *)

\* records measuring 2, 5, 8 (its abstract is longer), 10 and 17 characters,
\* and one without a title
LengthPool ==
    { ApiRecord(Some(<<"B">>), Some(<<>>), None, None),
      ApiRecord(Some(<<"B">>), Some(<<"n", "l", "p">>), None, None),
      DblpRecord([title |-> Some(<<"B">>), venue |-> Some(<<"V", "L", "A">>)]),
      ApiRecord(Some(<<"a", "b", "c">>), Some(<<"d", "e", "f", "g", "h", "i">>), None, None),
      ApiRecord(Some(<<"A", " ", "V", "L", "A", " ", "m", "o", "d", "e", "l">>), Some(<<"r", "o", "b", "o", "t">>), None, None),
      ApiRecord(None, Some(<<"v", "l", "a">>), None, None) }

LengthRules ==
    { [FilterConfig("length") EXCEPT !.min = lo, !.max = hi] :
        lo \in {None, Some(0), Some(3), Some(10)},
        hi \in {None, Some(0), Some(5), Some(10)} }

InitLength ==
    \E given \in BoundedSeq(LengthPool, MaxStageItems), rule \in LengthRules :
        FilterCalled(given, <<rule>>, Midnight)

SpecLength == InitLength /\ [][NextFilter]_vars

\* the length the stage measures: the title, a separator, the content
Measure(item) == Len(Get(item.title)) + 1 + Len(Get(item.content))

\* the length is within the bounds the rule sets
WithinBounds(n, rule) ==
    /\ IsNone(rule.min) \/ n >= Get(rule.min)
    /\ IsNone(rule.max) \/ n <= Get(rule.max)

\* the items of s whose length is within the bounds of rule
RECURSIVE OfLength(_, _)
OfLength(s, rule) ==
    IF s = <<>> THEN <<>>
    ELSE (IF WithinBounds(Measure(Head(s)), rule) THEN <<Head(s)>> ELSE <<>>)
         \o OfLength(Tail(s), rule)

\* C12: the length stage measures a record as its title, one separator and
\* its content, never its abstract, and retains it exactly when that length
\* is not below min (if set) and not above max (if set): with no bound every
\* record is retained, and one of 5 characters is dropped under min = 10.
LengthWithinBounds ==
    \A k \in DOMAIN stages :
        stages[k].rule.type = "length" /\ stages[k].out.ok =>
            LET rule   == stages[k].rule
                input  == stages[k].input
                output == stages[k].out.val
                five   == ApiRecord(Some(<<"B">>), Some(<<"n", "l", "p">>), None, None)
            IN  /\ output = OfLength(input, rule)
                /\ IsNone(rule.min) /\ IsNone(rule.max) => output = input
                /\ Measure(five) = 5
                /\ rule.min = Some(10) => five \notin Range(output)

\* under max = 10 the stage kept the record of 8 characters whose abstract
\* makes 11, kept the one of exactly 10 and dropped the one of 17
LengthWithinBoundsWitness ==
    /\ pc = "done"
    /\ filters[1].min = None
    /\ filters[1].max = Some(10)
    /\ \E longer \in {ApiRecord(Some(<<"A", " ", "V", "L", "A", " ", "m", "o", "d", "e", "l">>), Some(<<"r", "o", "b", "o", "t">>), None, None)},
          short \in {DblpRecord([title |-> Some(<<"B">>), venue |-> Some(<<"V", "L", "A">>)])} :
          /\ items = <<longer, short>>
          /\ Get(result) = <<short>>
          /\ Len(Get(short.title)) + 1 + Len(Get(short.abstract)) = 11

---------------------------------------------------------------------------
(* C13: what a scope reads *)

\* a text in which every pattern and keyword of the rules is found
Everything == <<"v", "l", "a", " ", "V", "L", "A", " ", "t", "e", "s", "t", " ", "B", ".", " ", "r", "o", "b", "o", "t", " ", "l", " ", "r">>

\* item with each field its scope does not read replaced by fill: under
\* "title" the abstract and the content, under "abstract" the title and, when
\* the abstract is there, the content, under "all" the content when the
\* abstract is there
Elsewhere(item, scope, fill) ==
    LET present == ~IsNone(item.abstract) /\ Len(Get(item.abstract)) > 0
    IN  IF scope = "title"
        THEN [item EXCEPT !.abstract = Some(fill), !.content = Some(fill)]
        ELSE IF scope = "abstract"
        THEN [item EXCEPT !.title = Some(fill),
                          !.content = IF present THEN Some(fill) ELSE @]
        ELSE [item EXCEPT !.content = IF present THEN Some(fill) ELSE @]

ElsewhereAll(s, scope, fill) == [k \in DOMAIN s |-> Elsewhere(s[k], scope, fill)]

\* the text the scope names, for a record whose fields are all texts
ScopeText(item, scope) ==
    LET body == IF ~IsNone(item.abstract) /\ Len(Get(item.abstract)) > 0
                THEN Get(item.abstract) ELSE Get(item.content)
    IN  IF scope = "title" THEN Get(item.title)
        ELSE IF scope = "abstract" THEN body
        ELSE Get(item.title) \o <<" ">> \o body

\* C13: a regex or keyword rule reads the title alone under scope "title",
\* the abstract (the content when the record has none) under "abstract", and
\* the title, a separator and the abstract-or-content under "all": what the
\* other fields hold never changes which records are retained, and keyword
\* ["vla"] kept case-insensitively on titles retains "A VLA model" and drops
\* "B" whatever the abstracts contain.
ScopeSelectsText ==
    \A k \in DOMAIN stages :
        stages[k].rule.type \in {"regex", "keyword"} /\ stages[k].out.ok =>
            LET rule   == stages[k].rule
                input  == stages[k].input
                output == stages[k].out.val
                vla    == Some(<<<<"v", "l", "a">>>>)
            IN  /\ \A fill \in {<<>>, Everything} :
                       TextStage(ElsewhereAll(input, rule.scope, fill), rule)
                           = Ok(ElsewhereAll(output, rule.scope, fill))
                /\ /\ rule.type = "keyword"
                   /\ rule.keywords # None
                   /\ Len(Get(rule.keywords)) = 1
                   /\ rule.action = "keep"
                   /\ rule.case_sensitive
                   => \A i \in DOMAIN input :
                          input[i] \in Range(output)
                              <=> Contains(ScopeText(input[i], rule.scope),
                                           Get(rule.keywords)[1])
                /\ /\ rule.type = "keyword"
                   /\ rule.keywords = vla
                   /\ rule.scope = "title"
                   /\ rule.action = "keep"
                   /\ ~rule.case_sensitive
                   => \A i \in DOMAIN input :
                          /\ Get(input[i].title) = <<"A", " ", "V", "L", "A", " ", "m", "o", "d", "e", "l">>
                                 => input[i] \in Range(output)
                          /\ Get(input[i].title) = <<"B">>
                                 => input[i] \notin Range(output)

\* keyword ["vla"] on titles kept "A VLA model" and dropped the record "B"
\* whose abstract and content name VLA
ScopeSelectsTextWitness ==
    /\ pc = "done"
    /\ filters[1].type = "keyword"
    /\ filters[1].keywords = Some(<<<<"v", "l", "a">>>>)
    /\ filters[1].scope = "title"
    /\ filters[1].action = "keep"
    /\ ~filters[1].case_sensitive
    /\ \E b \in {DblpRecord([title |-> Some(<<"B">>), venue |-> Some(<<"V", "L", "A">>)])},
          a \in {ApiRecord(Some(<<"A", " ", "V", "L", "A", " ", "m", "o", "d", "e", "l">>), Some(<<"r", "o", "b", "o", "t">>), None, None)} :
          /\ items = <<b, a>>
          /\ Get(result) = <<a>>
          /\ Contains(Get(b.abstract), <<"V", "L", "A">>)

---------------------------------------------------------------------------
(* C14: the source label of a record *)

\* label is name, or name followed by "/" and a sub-label
LabelOf(label, name) ==
    \/ label = name
    \/ /\ Len(label) > Len(name)
       /\ SubSeq(label, 1, Len(name) + 1) = name \o <<"/">>

\* C14: every record fetch returns carries a source label derived from the
\* configured name of the source that produced it: that name, or that name
\* followed by "/" and a sub-label, for every adapter.
SourceLabelFromName ==
    \A k \in DOMAIN calls :
        calls[k].invoked /\ calls[k].data.ok =>
            \A i \in DOMAIN calls[k].data.val :
                LabelOf(calls[k].data.val[i].source,
                        sources[calls[k].source].name)

---------------------------------------------------------------------------
(* C15: the API adapter on empty and malformed bodies *)

\* the body of call k is a JSON object whose "data" holds the list elems
DataList(k, elems) ==
    /\ calls[k].resp.json.kind = "dict"
    /\ "data" \in DOMAIN calls[k].resp.json.obj
    /\ calls[k].resp.json.obj.data = Some(elems)

\* C15: the API adapter returns an empty sequence, not an error, for a body
\* that is not valid JSON, a JSON scalar, an empty JSON list and a JSON
\* object whose data list is empty; for an object with a non-empty data list
\* it returns exactly one record per element of that list, in order.
ApiEmptyOnEmptyInput ==
    \A k \in DOMAIN calls :
        /\ calls[k].invoked
        /\ sources[calls[k].source].type = "api"
        /\ calls[k].resp.http = "ok"
        => LET json == calls[k].resp.json
               data == calls[k].data
           IN  /\ json.kind \in {"invalid", "scalar"} => data = Ok(<<>>)
               /\ json.kind = "list" /\ json.elems = <<>> => data = Ok(<<>>)
               /\ DataList(k, <<>>) => data = Ok(<<>>)
               /\ \A elems \in {Get(ApiData.obj.data)} :
                      DataList(k, elems) =>
                          /\ data.ok
                          /\ Len(data.val) = Len(elems)
                          /\ \A i \in DOMAIN elems :
                                 data.val[i].metadata.raw = elems[i]

\* the same without the object whose data list is empty
ApiEmptyOnMalformedInput ==
    \A k \in DOMAIN calls :
        /\ calls[k].invoked
        /\ sources[calls[k].source].type = "api"
        /\ calls[k].resp.http = "ok"
        /\ ~DataList(k, <<>>)
        => LET json == calls[k].resp.json
               data == calls[k].data
           IN  /\ json.kind \in {"invalid", "scalar"} => data = Ok(<<>>)
               /\ json.kind = "list" /\ json.elems = <<>> => data = Ok(<<>>)
               /\ \A elems \in {Get(ApiData.obj.data)} :
                      DataList(k, elems) =>
                          /\ data.ok
                          /\ Len(data.val) = Len(elems)
                          /\ \A i \in DOMAIN elems :
                                 data.val[i].metadata.raw = elems[i]

---------------------------------------------------------------------------
(* C16: a source of an unknown type *)

\* the calls of the run with the sources of unknown type left out
Declared(log) == SelectSeq(log, LAMBDA c : c.invoked)

\* C16: a source whose type is not a known adapter type is skipped without
\* an error: no adapter is invoked for it, it adds no record, and the other
\* sources are processed as if it were not declared.
UnknownSourceSkipped ==
    /\ pc # "raised"
    /\ \A k \in DOMAIN calls :
          sources[k].type \notin KnownSourceTypes =>
              /\ ~calls[k].invoked
              /\ "data" \notin DOMAIN calls[k]
    /\ Len(Declared(calls))
          = Cardinality({k \in DOMAIN calls : sources[k].type \in KnownSourceTypes})
    /\ all_data = Returned(Declared(calls), 1)
    /\ pc = "done" =>
          /\ Len(calls) = Len(sources)
          /\ Get(result) = Returned(Declared(calls), 1)

\* the first source is of an unknown type, the second returned records, and
\* they are the result
UnknownSourceSkippedWitness ==
    /\ pc = "done"
    /\ Len(sources) = 2
    /\ sources[1] = FeedSource
    /\ ~calls[1].invoked
    /\ calls[2].invoked /\ calls[2].data.ok
    /\ calls[2].data.val # <<>>
    /\ Get(result) = calls[2].data.val

---------------------------------------------------------------------------
(* C17: a rule of an unknown type *)

\* the stages of the run with the rules of unknown type left out
Served(log) ==
    SelectSeq(log, LAMBDA s : s.rule.type \in {"regex", "keyword", "length",
                                              "deduplicate", "date"})

\* C17: a rule whose type is not a known stage type is skipped without an
\* error: it hands the list on as it received it, and the rules before and
\* after it are applied as usual, each to the output of the served rule
\* before it.
UnknownRuleSkipped ==
    /\ \A k \in DOMAIN stages :
          stages[k].rule.type \notin {"regex", "keyword", "length",
                                      "deduplicate", "date"}
              => stages[k].out = Ok(stages[k].input)
    /\ \E served \in {Served(stages)} :
          /\ \A j \in DOMAIN served :
                served[j].input = IF j = 1 THEN items ELSE served[j - 1].out.val
          /\ pc = "done" =>
                /\ Len(stages) = Len(filters)
                /\ Get(result) = IF served = <<>> THEN items
                                 ELSE served[Len(served)].out.val

\* a rule of type "sort" came first and handed both records on, and the
\* keyword rule after it dropped one of them
UnknownRuleSkippedWitness ==
    /\ pc = "done"
    /\ filters = <<SortRule, KeywordRemoveRule>>
    /\ Len(items) = 2
    /\ stages[1].out.val = items
    /\ stages[2].input = items
    /\ Len(Get(result)) = 1

---------------------------------------------------------------------------
(* C18, C19: which records a keyword rule and a regex rule retain *)

\* text as the rule compares it: as it is, or in small letters
Folded(text, rule) == IF rule.case_sensitive THEN text ELSE Lower(text)

\* the record matches the keyword rule: one keyword of the rule is a
\* substring of the text its scope names, every keyword when match is "all"
KeywordMatches(item, rule) ==
    LET text == Folded(ScopeText(item, rule.scope), rule)
        kws  == Get(rule.keywords)
    IN  IF rule.match = "all"
        THEN \A k \in DOMAIN kws : Contains(text, Folded(kws[k], rule))
        ELSE \E k \in DOMAIN kws : Contains(text, Folded(kws[k], rule))

\* the rule with the other action
Opposite(rule) ==
    [rule EXCEPT !.action = IF @ = "keep" THEN "remove" ELSE "keep"]

\* a and b split s: every position of s went to exactly one of them
Splits(s, a, b) ==
    /\ Len(a) + Len(b) = Len(s)
    /\ IsSubsequence(a, s)
    /\ IsSubsequence(b, s)
    /\ \A i \in DOMAIN s : (s[i] \in Range(a)) # (s[i] \in Range(b))

\* C18: a keyword rule with a non-empty keyword set retains, under action
\* keep, exactly the records that match (one keyword a substring of the
\* derived text under match any, every keyword under match all) and, under
\* action remove, exactly those that do not; the keep output and the remove
\* output of a rule partition its input.
KeywordRetention ==
    \A k \in DOMAIN stages :
        /\ stages[k].rule.type = "keyword"
        /\ stages[k].rule.keywords \notin {None, Some(<<>>)}
        /\ stages[k].rule.action \in {"keep", "remove"}
        /\ stages[k].out.ok
        => LET rule   == stages[k].rule
               input  == stages[k].input
               output == stages[k].out.val
           IN  /\ IsSubsequence(output, input)
               /\ \A i \in DOMAIN input :
                      input[i] \in Range(output)
                          <=> (KeywordMatches(input[i], rule)
                                   <=> rule.action = "keep")
               /\ \E other \in {_filter_keyword(input, Opposite(rule))} :
                      other.ok /\ Splits(input, output, other.val)

\* keywords "test" and "B" under match all kept the record that holds both
\* and dropped the one that holds only "test"
KeywordRetentionWitness ==
    /\ pc = "done"
    /\ filters[1].type = "keyword"
    /\ filters[1].keywords = Some(<<<<"t", "e", "s", "t">>, <<"B">>>>)
    /\ filters[1].match = "all"
    /\ filters[1].action = "keep"
    /\ filters[1].scope = "all"
    /\ ~filters[1].case_sensitive
    /\ \E one \in {ApiRecord(Some(<<"T", "E", "S", "T", " ", "c", "a", "s", "e">>), Some(<<"x">>), None, None)},
          both \in {ApiRecord(Some(<<"B">>), Some(<<"n", "l", "p", " ", "t", "e", "s", "t">>), None, None)} :
          /\ items = <<one, both>>
          /\ Get(result) = <<both>>

\* the pattern of the rule, letters and ".", is found somewhere in the text
\* its scope names: at some position every letter of the pattern meets the
\* same letter and every "." any character but a line break
PatternMatches(item, rule) ==
    LET text == Folded(ScopeText(item, rule.scope), rule)
        p    == Folded(Get(rule.pattern), rule)
    IN  \E i \in 0..(Len(text) - Len(p)) :
            \A j \in DOMAIN p :
                IF p[j] = "." THEN text[i + j] # "\n" ELSE text[i + j] = p[j]

\* C19: a regex rule with a pattern retains a record if and only if its
\* action is keep and the pattern matches somewhere in the derived text, or
\* its action is remove and the pattern matches nowhere in it; the keep
\* output and the remove output of a pattern partition the input.
RegexRetention ==
    \A k \in DOMAIN stages :
        /\ stages[k].rule.type = "regex"
        /\ stages[k].rule.pattern \notin {None, Some(<<>>)}
        /\ stages[k].out.ok
        => LET rule   == stages[k].rule
               input  == stages[k].input
               output == stages[k].out.val
           IN  /\ IsSubsequence(output, input)
               /\ \A i \in DOMAIN input :
                      input[i] \in Range(output)
                          <=> \/ rule.action = "keep"
                                 /\ PatternMatches(input[i], rule)
                              \/ rule.action = "remove"
                                 /\ ~PatternMatches(input[i], rule)
               /\ \E kept \in {_filter_regex(input, [rule EXCEPT !.action = "keep"])},
                     removed \in {_filter_regex(input, [rule EXCEPT !.action = "remove"])} :
                      kept.ok /\ removed.ok /\ Splits(input, kept.val, removed.val)

\* pattern "B." with action remove dropped the record where it matches and
\* retained the one where it matches nowhere
RegexRetentionWitness ==
    /\ pc = "done"
    /\ filters[1].type = "regex"
    /\ filters[1].pattern = Some(<<"B", ".">>)
    /\ filters[1].action = "remove"
    /\ filters[1].scope = "all"
    /\ filters[1].case_sensitive
    /\ \E b \in {ApiRecord(Some(<<"B">>), Some(<<"n", "l", "p", " ", "t", "e", "s", "t">>), None, None)},
          a \in {ApiRecord(Some(<<"A", " ", "V", "L", "A", " ", "m", "o", "d", "e", "l">>), Some(<<"r", "o", "b", "o", "t">>), None, None)} :
          /\ items = <<b, a>>
          /\ Get(result) = <<a>>

\* the record matches the rule of a regex or keyword stage
TextMatches(item, rule) ==
    IF rule.type = "regex" THEN PatternMatches(item, rule)
    ELSE KeywordMatches(item, rule)

\* the stage ran a rule that has something to match, and returned
HasMatcher(stage) ==
    /\ stage.out.ok
    /\ \/ stage.rule.type = "regex"
          /\ stage.rule.pattern \notin {None, Some(<<>>)}
       \/ stage.rule.type = "keyword"
          /\ stage.rule.keywords \notin {None, Some(<<>>)}

\* C29: the regex stage and the keyword stage give action the same
\* polarity: under an action other than remove, an unrecognized one
\* included, each retains exactly the matching records, and under no action
\* does a stage drop every record of an input that holds a record it is to
\* retain.
ActionPolarity ==
    \A k \in DOMAIN stages :
        HasMatcher(stages[k]) =>
            \E rule \in {stages[k].rule}, input \in {stages[k].input},
               output \in {stages[k].out.val} :
                /\ rule.action # "remove" =>
                      \A i \in DOMAIN input :
                          input[i] \in Range(output)
                              <=> TextMatches(input[i], rule)
                /\ (/\ \E i \in DOMAIN input : TextMatches(input[i], rule)
                    /\ \E i \in DOMAIN input : ~TextMatches(input[i], rule))
                   => output # <<>>

\* what the stages do with an action that is neither keep nor remove: the
\* regex stage retains no record, the keyword stage the records that do
\* not match
UnrecognizedAction ==
    \A k \in DOMAIN stages :
        HasMatcher(stages[k]) /\ stages[k].rule.action \notin {"keep", "remove"}
        => \E rule \in {stages[k].rule}, input \in {stages[k].input},
              output \in {stages[k].out.val} :
               IF rule.type = "regex" THEN output = <<>>
               ELSE /\ IsSubsequence(output, input)
                    /\ \A i \in DOMAIN input :
                           input[i] \in Range(output)
                               <=> ~TextMatches(input[i], rule)

\* under keep and under remove the two stages agree: each retains the
\* matching records under keep and the others under remove
RecognizedActionPolarity ==
    \A k \in DOMAIN stages :
        HasMatcher(stages[k]) /\ stages[k].rule.action \in {"keep", "remove"}
        => \E rule \in {stages[k].rule}, input \in {stages[k].input},
              output \in {stages[k].out.val} :
               \A i \in DOMAIN input :
                   input[i] \in Range(output)
                       <=> (TextMatches(input[i], rule)
                                <=> rule.action = "keep")

---------------------------------------------------------------------------
(* C20: which window the date stage takes *)

\* the number a window field configures: 0 when it is absent
Configured(o) == IF IsNone(o) THEN 0 ELSE Get(o)

\* the clock h hours back
Back(clock, h) ==
    LET s == clock.sec - (h % 24) * 3600
    IN  [day |-> clock.day - (h \div 24) - (IF s < 0 THEN 1 ELSE 0),
         sec |-> IF s < 0 THEN s + 86400 ELSE s,
         us  |-> clock.us]

\* C20: with neither an hour window nor a day window configured (absent or
\* zero) the date stage returns its input unchanged; with both the cutoff is
\* the clock less the hour window and the day window is ignored; with one
\* of them the cutoff is the clock less that window.
WindowSelection ==
    \A k \in DOMAIN stages :
        stages[k].rule.type = "date" /\ stages[k].out.ok =>
            LET rule   == stages[k].rule
                input  == stages[k].input
                output == stages[k].out.val
                hours  == Configured(rule.hours)
                days   == Configured(rule.days)
                window == IF hours > 0 THEN hours ELSE 24 * days
            IN  /\ hours = 0 /\ days = 0 => output = input
                /\ hours > 0 \/ days > 0 =>
                       \A n \in DOMAIN input :
                           ~IsNone(ItemDate(input[n])) =>
                               (input[n] \in Range(output)
                                    <=> ~Earlier(Get(ItemDate(input[n])),
                                                 Back(now, window)))
                /\ hours > 0 /\ days > 0 =>
                       _filter_date(input, [rule EXCEPT !.days = None], now)
                           = Ok(output)

\* at noon, with a window of 48 hours and a window of 1 day, the stage kept
\* a record dated the midnight before, which the window of 1 day alone
\* drops, and dropped one dated the midnight before that
WindowSelectionWitness ==
    /\ pc = "done"
    /\ now = Noon
    /\ filters[1].hours = Some(48)
    /\ filters[1].days = Some(1)
    /\ items = <<Dated(Some(<<"2", "0", "2", "4", "-", "0", "3", "-", "0", "9">>)), Dated(Some(<<"2", "0", "2", "4", "-", "0", "3", "-", "1", "0">>))>>
    /\ Get(result) = <<Dated(Some(<<"2", "0", "2", "4", "-", "0", "3", "-", "1", "0">>))>>
    /\ _filter_date(items, [filters[1] EXCEPT !.hours = None], now).val = <<>>
---------------------------------------------------------------------------
(* The date stage on the records the adapters make *)

\* the records with a date that the adapters make of the responses above,
\* and one whose date is the pubDate text of a feed, as an API hands it on
RecencyPool ==
    { r \in UNION { UNION { Range(a.val) :
                            a \in { x \in { Adapter(s, resp) :
                                              resp \in Responses(s.type) } :
                                    x.ok } } :
                    s \in {c \in SourceConfigs : c.type \in KnownSourceTypes} } :
        TruthyStr(r.date) /\ ~IsNone(r.title) }
    \cup { ApiRecord(Some(<<"P">>), Some(<<>>), None,
                     Some(<<"S", "a", "t", ",", " ", "0", "9", " ", "M", "a", "r", " ", "2", "0", "2", "4", " ", "1", "0", ":", "0", "0", ":", "0", "0", " ", "G", "M", "T">>)) }

\* a clock one week after Midnight
NextWeek == [day |-> Ymd2Ord(2024, 3, 18), sec |-> 0, us |-> 0]

RecencyRules ==
    { [FilterConfig("date") EXCEPT !.days = w.days, !.hours = w.hours] :
        w \in { [days |-> None, hours |-> Some(24)],
                [days |-> Some(1), hours |-> None],
                [days |-> Some(7), hours |-> Some(0)],
                [days |-> Some(1), hours |-> Some(48)] } }

InitRecency ==
    \E pool \in {RecencyPool} :
        \E given \in BoundedSeq(pool, MaxStageItems), rule \in RecencyRules,
           clock \in {Noon, NextWeek} :
            FilterCalled(given, <<rule>>, clock)

SpecRecency == InitRecency /\ [][NextFilter]_vars

\* the text is a date of one of the forms the adapters emit: it starts with
\* a year, or it is a pubDate text
Denoting(text) == IsDigit(text[1]) \/ parsedate_to_datetime(text).ok

\* the instant a denoting text names, on the clock of UTC: a bare year is
\* its first day, a plain date its midnight, a trailing Z the offset zero,
\* and an offset of whole hours is taken off
Instant(text) ==
    LET iso   == IF IsDigit(text[1]) THEN text
                 ELSE isoformat(parsedate_to_datetime(text).val)
        n     == Len(iso)
        local == MkDatetime(NumAt(iso, 1, 4),
                            IF n >= 10 THEN NumAt(iso, 6, 2) ELSE 1,
                            IF n >= 10 THEN NumAt(iso, 9, 2) ELSE 1,
                            IF n >= 19 THEN NumAt(iso, 12, 2) ELSE 0,
                            IF n >= 19 THEN NumAt(iso, 15, 2) ELSE 0,
                            IF n >= 19 THEN NumAt(iso, 18, 2) ELSE 0).val
        east  == IF n = 25
                 THEN (IF iso[20] = "-" THEN -1 ELSE 1) * NumAt(iso, 21, 2)
                 ELSE 0
    IN  Back(local, east)

\* C21: the date stage reads every date form the adapters emit: under a
\* window, a record whose date text names an instant before the cutoff is
\* dropped, be the text a plain date, a bare year, an ISO date-time with a
\* trailing Z, an ISO date-time with a UTC offset or a pubDate text.
DateReadsEveryFormat ==
    \A k \in DOMAIN stages :
        stages[k].rule.type = "date" /\ stages[k].out.ok =>
            \A n \in DOMAIN stages[k].input :
                LET item == stages[k].input[n]
                IN  /\ Denoting(Get(item.date))
                    /\ Earlier(Instant(Get(item.date)),
                               Cutoff(stages[k].rule, now))
                    => item \notin Range(stages[k].out.val)

\* the same for the forms the stage has a format for: the plain date and
\* the bare year
DateReadsPlainFormats ==
    \A k \in DOMAIN stages :
        stages[k].rule.type = "date" /\ stages[k].out.ok =>
            \A n \in DOMAIN stages[k].input :
                LET item == stages[k].input[n]
                IN  /\ IsDigit(Get(item.date)[1])
                    /\ Len(Get(item.date)) \in {4, 10}
                    /\ Earlier(Instant(Get(item.date)),
                               Cutoff(stages[k].rule, now))
                    => item \notin Range(stages[k].out.val)

---------------------------------------------------------------------------
(* C22: a regex or keyword rule with nothing to match *)

\* C22: a regex rule without a pattern (absent or empty) and a keyword rule
\* without keywords (absent or an empty list) return exactly the list they
\* received, whatever their action, scope and match mode.
NothingToMatch ==
    \A k \in DOMAIN stages :
        \/ /\ stages[k].rule.type = "regex"
           /\ stages[k].rule.pattern \in {None, Some(<<>>)}
        \/ /\ stages[k].rule.type = "keyword"
           /\ stages[k].rule.keywords \in {None, Some(<<>>)}
        => stages[k].out = Ok(stages[k].input)

\* a regex rule with an empty pattern and action remove returned both of
\* its records, one of them without a title
NothingToMatchWitness ==
    /\ pc = "done"
    /\ filters[1].type = "regex"
    /\ filters[1].pattern = Some(<<>>)
    /\ filters[1].action = "remove"
    /\ filters[1].scope = "title"
    /\ Len(items) = 2
    /\ IsNone(items[2].title)
    /\ Get(result) = items

---------------------------------------------------------------------------
(* C23: no retry *)

\* C23: within one call of fetch the adapter of each source is invoked at
\* most once: after an invocation failed, by timeout or otherwise, the loop
\* is past that source and never comes back to it, whatever the retry
\* setting says.
NoRetry ==
    /\ \A j \in DOMAIN calls, k \in DOMAIN calls :
          calls[j].source = calls[k].source => j = k
    /\ \A k \in DOMAIN calls :
          calls[k].invoked /\ ~calls[k].data.ok => si > calls[k].source
    /\ Len(calls) <= Len(sources)

\* with retry set to three, the request of the first source failed, fetch
\* returned, and that source was called once
NoRetryWitness ==
    /\ pc = "done"
    /\ settings.retry = 3
    /\ Len(sources) = 2
    /\ calls[1].invoked /\ ~calls[1].data.ok
    /\ calls[1].data.exc = "RequestException"
    /\ Cardinality({k \in DOMAIN calls : calls[k].source = 1}) = 1
    /\ Len(calls) = 2

---------------------------------------------------------------------------
(* Crawler.fetch on dblp sources *)

\* the dblp source with room for three records, the one with a query only
\* and the one with venues only
DblpWide ==
    [DblpSource EXCEPT !.name = <<"w", "i", "d", "e">>,
                       !.auth = Some([Get(DblpSource.auth) EXCEPT !.max_results = 3])]

DblpQuery ==
    [DblpSource EXCEPT !.name = <<"q", "u", "e", "r", "y">>,
                       !.auth = Some([query |-> Some(<<"v", "l", "a">>), max_results |-> 2])]

DblpVenues ==
    [DblpSource EXCEPT !.name = <<"v", "e", "n", "u", "e", "s">>,
                       !.auth = Some([conferences |-> <<<<"i", "c", "m", "l">>>>, max_results |-> 2])]

DblpSources == {DblpSource, DblpWide, DblpQuery, DblpVenues}

InitDblp ==
    /\ sources \in BoundedSeq(DblpSources, MaxSources)
    /\ settings \in Settings
    /\ declared = <<>>
    /\ filters = <<>>
    /\ now = Midnight
    /\ pc = "fetch"
    /\ si = 1
    /\ all_data = <<>>
    /\ calls = <<>>
    /\ items = <<>>
    /\ fi = 1
    /\ filtered = <<>>
    /\ stages = <<>>
    /\ result = None

SpecDblp == InitDblp /\ [][Next]_vars

\* the first record of each title, in order
RECURSIVE FirstOfEachTitle(_)
FirstOfEachTitle(s) ==
    IF s = <<>> THEN <<>>
    ELSE LET rest == FirstOfEachTitle(SubSeq(s, 1, Len(s) - 1))
             last == s[Len(s)]
         IN  IF \E i \in 1..(Len(s) - 1) : s[i].title = last.title THEN rest
             ELSE Append(rest, last)

\* the record comes from a venue feed
FromFeed(item) == item.metadata.source = "dblp_rss"

\* C24: with a query and a venue list both retrieval modes of the dblp
\* adapter run and the records of the search precede those of the venue
\* feeds; the returned list holds no title twice (the first record of a
\* title stays, in order) and at most max_results records; a mode that
\* fails does not take the records of the other with it.
DblpCombines ==
    \A k \in DOMAIN calls :
        LET source == sources[calls[k].source]
            auth   == Get(source.auth)
            resp   == calls[k].resp
            limit  == auth.max_results
        IN  \E found \in {IF "query" \in DOMAIN auth
                          THEN _fetch_dblp_search(Get(auth.query), limit, resp.search)
                          ELSE <<>>},
               rss \in {IF "conferences" \in DOMAIN auth
                        THEN _fetch_dblp_rss(auth.conferences, limit,
                                             resp.feed, resp.pages)
                        ELSE <<>>} :
                /\ calls[k].data.ok
                /\ \E out \in {calls[k].data.val} :
                      /\ Len(out) <= limit
                      /\ \A i \in DOMAIN out, j \in DOMAIN out :
                            /\ out[i].title = out[j].title => i = j
                            /\ i < j => ~(FromFeed(out[i]) /\ ~FromFeed(out[j]))
                      /\ \E all \in {FirstOfEachTitle(found \o rss)} :
                            out = SubSeq(all, 1, IF Len(all) < limit THEN Len(all)
                                                 ELSE limit)
                      /\ resp.search.http = "error" /\ rss # <<>> => out # <<>>
                      /\ resp.feed.http = "error" /\ found # <<>> => out # <<>>

\* with room for three, the search gave "A & B" and "C", the venue feed "C"
\* and "E", and the adapter returned the three titles, the search first
DblpCombinesWitness ==
    /\ pc = "done"
    /\ sources = <<DblpWide>>
    /\ Len(Get(result)) = 3
    /\ Get(result)[1].title = Some(<<"A", " ", "&", " ", "B">>)
    /\ Get(result)[2].title = Some(<<"C">>)
    /\ ~FromFeed(Get(result)[2])
    /\ Get(result)[3].title = Some(<<"E">>)
    /\ FromFeed(Get(result)[3])

---------------------------------------------------------------------------
(* C25: the order of the records of the arxiv_rss adapter *)

\* the record has a date
HasDate(item) == ~IsNone(item.date) /\ Get(item.date) # <<>>

\* a names a later instant than b
Later(a, b) == Earlier(Instant(Get(b.date)), Instant(Get(a.date)))

\* C25: the list the arxiv_rss adapter returns is sorted by date, newest
\* first: no record is dated later than a record before it, every record
\* without a date comes after every dated one, and the list holds at most
\* max_results records, the newest of the feed's entries.
ArxivRssNewestFirst ==
    \A k \in DOMAIN calls :
        /\ calls[k].invoked
        /\ sources[calls[k].source].type = "arxiv_rss"
        /\ calls[k].data.ok
        => \E out \in {calls[k].data.val},
              all \in {ArxivRssItems(sources[calls[k].source],
                                     ArxivRssEntries(calls[k].resp))},
              limit \in {Get(sources[calls[k].source].auth).max_results} :
               /\ Len(out) = IF Len(all) < limit THEN Len(all) ELSE limit
               /\ \A i \in DOMAIN out, j \in DOMAIN out :
                     i < j =>
                         /\ HasDate(out[j]) => HasDate(out[i])
                         /\ HasDate(out[i]) /\ HasDate(out[j])
                                => ~Later(out[j], out[i])
               /\ \A i \in DOMAIN out : out[i] \in Range(all)
               /\ \A n \in DOMAIN all :
                     all[n] \notin Range(out) =>
                         \A i \in DOMAIN out :
                             /\ HasDate(all[n]) => HasDate(out[i])
                             /\ HasDate(all[n]) /\ HasDate(out[i])
                                    => ~Later(all[n], out[i])

\* the same for the order of the texts of the dates, which is what the
\* adapter sorts on: no date text is greater than one before it
ArxivRssSortedByText ==
    \A k \in DOMAIN calls :
        /\ calls[k].invoked
        /\ sources[calls[k].source].type = "arxiv_rss"
        /\ calls[k].data.ok
        => \E out \in {calls[k].data.val} :
               \A i \in DOMAIN out, j \in DOMAIN out :
                   i < j => ~StrLess(DateKey(out[i]), DateKey(out[j]))

---------------------------------------------------------------------------
(* C26: the date of a record of the arxiv_rss adapter *)

\* the node is there and its text is a date
ParsesAsDate(node) ==
    /\ ~IsNone(node)
    /\ TruthyStr(GetText(node))
    /\ Denoting(Get(GetText(node)))

\* the date of the first of pubDate, dc:date and published that is there and
\* parses; None when none does
FirstParsing(entry) ==
    IF ParsesAsDate(entry.pubDate) THEN PubDate(entry.pubDate)
    ELSE IF ParsesAsDate(entry.dc_date) THEN GetText(entry.dc_date)
    ELSE IF ParsesAsDate(entry.published) THEN GetText(entry.published)
    ELSE None

\* C26: the date of each record of the arxiv_rss adapter is that of the
\* first of the entry's pubDate, dc:date and published fields that is
\* present and parses as a date; a later field counts only when every
\* earlier one is absent or unparsable, and the date is absent when none
\* parses.
ArxivRssDateFirstParsing ==
    \A k \in DOMAIN calls :
        /\ calls[k].invoked
        /\ sources[calls[k].source].type = "arxiv_rss"
        /\ calls[k].data.ok
        => \E entries \in {ArxivRssEntries(calls[k].resp)} :
               \A i \in DOMAIN calls[k].data.val :
                   \E n \in DOMAIN entries :
                       /\ ArxivRssItem(sources[calls[k].source], entries[n])
                              = <<calls[k].data.val[i]>>
                       /\ calls[k].data.val[i].date = FirstParsing(entries[n])

\* the same for the entries without a dc:date field whose published field,
\* when there is one, is a date
ArxivRssDateOfTwoFields ==
    \A k \in DOMAIN calls :
        /\ calls[k].invoked
        /\ sources[calls[k].source].type = "arxiv_rss"
        /\ calls[k].data.ok
        => \E entries \in {ArxivRssEntries(calls[k].resp)} :
               \A i \in DOMAIN calls[k].data.val :
                   \E n \in DOMAIN entries :
                       /\ ArxivRssItem(sources[calls[k].source], entries[n])
                              = <<calls[k].data.val[i]>>
                       /\ /\ IsNone(entries[n].dc_date)
                          /\ IsNone(entries[n].published)
                                \/ ParsesAsDate(entries[n].published)
                          => calls[k].data.val[i].date = FirstParsing(entries[n])

---------------------------------------------------------------------------
(* Config.load and the pipeline it hands the rules to.  A rule of the       *)
(* configuration file is a map from the keys it writes to their values.     *)

\* filter_cfg of Config.load for one map of the file's filters list
LoadFilter(filter_data) ==
    [type           |-> filter_data.type,
     pattern        |-> DictGet(filter_data, "pattern", None),
     action         |-> DictGet(filter_data, "action", "keep"),
     keywords       |-> DictGet(filter_data, "keywords", None),
     match          |-> DictGet(filter_data, "match", "any"),
     min            |-> DictGet(filter_data, "min", None),
     max            |-> DictGet(filter_data, "max", None),
     fields         |-> DictGet(filter_data, "fields", None),
     scope          |-> DictGet(filter_data, "scope", "all"),
     case_sensitive |-> DictGet(filter_data, "case_sensitive", FALSE),
     days           |-> None,
     hours          |-> None]

\* Config.load builds task.filters from the file, and ContentFilter(task)
\* starts on the items
load ==
    /\ pc = "load"
    /\ filters' = [k \in DOMAIN declared |-> LoadFilter(declared[k])]
    /\ pc' = "filter"
    /\ UNCHANGED <<sources, settings, declared, now, si, all_data, calls, items,
                   fi, filtered, stages, result>>

NextLoaded == load \/ filter_step \/ filter_return

\* rules as a configuration file writes them
DeclaredFilters ==
    { [type |-> "date", hours |-> Some(24)],
      [type |-> "date", days |-> Some(1)],
      [type |-> "date", days |-> Some(7), hours |-> Some(48)],
      [type |-> "keyword", keywords |-> Some(<<<<"Q">>>>), action |-> "remove",
       match |-> "all", scope |-> "title", case_sensitive |-> TRUE],
      [type |-> "regex", pattern |-> Some(<<"P">>)],
      [type |-> "length", min |-> Some(3), max |-> Some(10)],
      [type |-> "deduplicate", fields |-> Some(<<"title">>)] }

\* records dated two days and one day before the clock, and one whose date
\* no format reads
LoadedPool ==
    { Dated(Some(<<"2", "0", "2", "4", "-", "0", "3", "-", "0", "9">>)), Dated(Some(<<"2", "0", "2", "4", "-", "0", "3", "-", "1", "0">>)),
      ApiRecord(Some(<<"Q">>), Some(<<"n", "l", "p">>), None, Some(<<"n", "o", "t", "-", "a", "-", "d", "a", "t", "e">>)) }

InitLoaded ==
    \E file \in BoundedSeq(DeclaredFilters, MaxRules),
       given \in BoundedSeq(LoadedPool, MaxStageItems) :
        /\ sources = <<>>
        /\ settings = SettingsConfig(3)
        /\ declared = file
        /\ filters = <<>>
        /\ now = Noon
        /\ pc = "load"
        /\ si = 1
        /\ all_data = <<>>
        /\ calls = <<>>
        /\ items = given
        /\ fi = 1
        /\ filtered = given
        /\ stages = <<>>
        /\ result = None

SpecLoaded == InitLoaded /\ [][NextLoaded]_vars

\* the value the file writes under key, None when it does not write it
Written(filter_data, key) ==
    IF key \in DOMAIN filter_data THEN filter_data[key] ELSE None

\* C27: a window written in the configuration file reaches the pipeline:
\* the rule Config.load makes of a date rule declared with hours or days
\* carries the same hours and days, so that the loaded pipeline drops a
\* record dated before the window.
WindowReachesPipeline ==
    pc # "load" =>
        /\ \A k \in DOMAIN declared :
              declared[k].type = "date" =>
                  /\ filters[k].hours = Written(declared[k], "hours")
                  /\ filters[k].days = Written(declared[k], "days")
        /\ \A k \in DOMAIN stages :
              declared[k].type = "date" /\ stages[k].out.ok =>
                  \A n \in DOMAIN stages[k].input :
                      LET item == stages[k].input[n]
                          hours == Configured(Written(declared[k], "hours"))
                          days == Configured(Written(declared[k], "days"))
                      IN  /\ ~IsNone(ItemDate(item))
                          /\ Earlier(Get(ItemDate(item)),
                                     Back(now, IF hours > 0 THEN hours
                                               ELSE 24 * days))
                          => item \notin Range(stages[k].out.val)

\* every other key of a rule reaches the pipeline, with the default of
\* FilterConfig when the file does not write it
LoadCarriesOtherFields ==
    pc # "load" =>
        \A k \in DOMAIN declared :
            \E d \in {declared[k]} :
                /\ filters[k].type = d.type
                /\ filters[k].pattern = Written(d, "pattern")
                /\ filters[k].keywords = Written(d, "keywords")
                /\ filters[k].min = Written(d, "min")
                /\ filters[k].max = Written(d, "max")
                /\ filters[k].fields = Written(d, "fields")
                /\ filters[k].action
                      = IF "action" \in DOMAIN d THEN d.action ELSE "keep"
                /\ filters[k].match
                      = IF "match" \in DOMAIN d THEN d.match ELSE "any"
                /\ filters[k].scope
                      = IF "scope" \in DOMAIN d THEN d.scope ELSE "all"
                /\ filters[k].case_sensitive
                      = IF "case_sensitive" \in DOMAIN d THEN d.case_sensitive
                        ELSE FALSE

===========================================================================
